---- MODULE Spec2Model ----
(***************************************************************************)
(* Weather dashboard (Streamlit, three pages): a model of the geocoder,    *)
(* the weather client, the forecast shaper and the LLM context builder.    *)
(*                                                                         *)
(* Conventions                                                             *)
(*   - text that the code inspects character by character (city queries)   *)
(*     is a sequence of one-character strings; text that is only carried   *)
(*     around (display names, labels) is a TLA+ string;                    *)
(*   - Python's None is the record NoneVal;                                *)
(*   - coordinates are integers in units of 1e-4 degree.                   *)
(***************************************************************************)
EXTENDS Integers, Sequences, FiniteSets, TLC

VARIABLES
    \* ---- one call of a page's get_coordinates
    geo_page,       \* page whose get_coordinates ran: "none" before any call
    geo_query,      \* the city_name argument (sequence of characters)
    geo_secret,     \* what st.secrets holds for OPENCAGE_API_KEY
    geo_reply,      \* what the geocoding service answered (or would answer)
    geo_result,     \* the value get_coordinates returned
    geo_requests,   \* geocoding requests issued by the call, in order
    geo_msgs,       \* st.error / st.info messages the call showed, in order
    geo_calls,      \* number of get_coordinates calls made so far
    geo_prev        \* history: the value the previous call returned

geoVars == <<geo_page, geo_query, geo_secret, geo_reply, geo_result,
             geo_requests, geo_msgs, geo_calls, geo_prev>>

VARIABLES
    \* ---- one call of the dashboard's get_weather_description
    desc_code,      \* the weather_code argument
    desc_result,    \* the returned (label, icon) pair; Unset before the call
    desc_insights,  \* the label the Insights page gives the same code
    desc_chatbot    \* the condition the chatbot page gives the same code

descVars == <<desc_code, desc_result, desc_insights, desc_chatbot>>

VARIABLES
    \* ---- the dashboard's forecast section, for one stored forecast
    fc_data,        \* the stored forecast response (st.session_state)
    fc_days,        \* the stored forecast_days
    df_forecast,    \* what process_hourly_forecast returned; Unset before
    fc_stats        \* the statistics the section computed; Unset before

shapeVars == <<fc_data, fc_days, df_forecast, fc_stats>>

VARIABLES
    \* ---- one call of the Insights page's process_weather_for_llm
    ctx_weather,    \* the weather_data argument (a weather API response)
    ctx_city,       \* the city_name argument
    ctx_out,        \* the returned context; Unset before the call
    ctx_report      \* what the Generate Weather Report handler, run on the
                    \* same response, rendered; Unset before it ran

ctxVars == <<ctx_weather, ctx_city, ctx_out, ctx_report>>

VARIABLES
    \* ---- a browser session on the dashboard and the Insights page
    city_input,         \* the dashboard's city text input
    temp_unit_display,  \* the dashboard's temperature unit select box
    forecast_days,      \* the dashboard's forecast days slider
    session_state,      \* st.session_state: a function from the stored keys
    wx_page,            \* page whose script ran last: "none" before any run
    wx_requests,        \* weather API requests sent by the last run
    wx_msgs,            \* messages and unit labels shown by the last run
    wx_calls,           \* every outbound call of the last run, in order
    wx_action           \* the widget or button that caused the last run

dashVars == <<city_input, temp_unit_display, forecast_days, session_state,
              wx_page, wx_requests, wx_msgs, wx_calls, wx_action>>

VARIABLES
    \* ---- a browser session on the chatbot page
    gemini_key,          \* st.secrets["GEMINI_API_KEY"], or None
    chat_messages,       \* st.session_state.chat_messages
    chat_session,        \* st.session_state.chat_session: a handle or None
    chatbot_initialized, \* st.session_state.chatbot_initialized
    chat_last,           \* the user action that caused the last script run
    chat_calls,          \* every outbound call of the last run, in order
    chat_notes,          \* st.error / st.success / st.warning of the last run
    chat_handles,        \* number of chat handles created so far
    chat_stale           \* handles created before the latest clear

chatVars == <<gemini_key, chat_messages, chat_session, chatbot_initialized,
              chat_last, chat_calls, chat_notes, chat_handles, chat_stale>>

VARIABLES
    \* ---- one call of a text function of the LLM adapter or the chatbot
    txt_fn,         \* the function called: "none" before the call
    txt_in,         \* its text argument (sequence of characters)
    txt_out         \* what it returned; Unset before the call

textVars == <<txt_fn, txt_in, txt_out>>

VARIABLES
    \* ---- two browser sessions served by the one Streamlit process
    sess,           \* each session's st.session_state: the dashboard's store
                    \* and the chatbot's transcript, handle and flag
    sess_sent,      \* per chat handle created, the messages sent through it
    sess_actor      \* the session whose script ran last: "none" before any

sessVars == <<sess, sess_sent, sess_actor>>

vars == <<geoVars, descVars, shapeVars, ctxVars, dashVars, chatVars, textVars,
          sessVars>>

\* the variables each specification leaves alone
nonGeoVars   == <<descVars, shapeVars, ctxVars, dashVars, chatVars, textVars,
                 sessVars>>
nonDescVars  == <<geoVars, shapeVars, ctxVars, dashVars, chatVars, textVars,
                 sessVars>>
nonShapeVars == <<geoVars, descVars, ctxVars, dashVars, chatVars, textVars,
                 sessVars>>
nonCtxVars   == <<geoVars, descVars, shapeVars, dashVars, chatVars, textVars,
                 sessVars>>
nonDashVars  == <<geoVars, descVars, shapeVars, ctxVars, chatVars, textVars,
                 sessVars>>
nonChatVars  == <<geoVars, descVars, shapeVars, ctxVars, dashVars, textVars,
                 sessVars>>
nonTextVars  == <<geoVars, descVars, shapeVars, ctxVars, dashVars, chatVars,
                 sessVars>>
nonSessVars  == <<geoVars, descVars, shapeVars, ctxVars, dashVars, chatVars,
                 textVars>>

NoneVal == [kind |-> "None"]

\* a variable no code has assigned yet
Unset == [kind |-> "unset"]

(***************************************************************************)
(* Characters: str.lower() and str.strip()                                 *)
(***************************************************************************)
Lowers == <<"a","b","c","d","e","f","g","h","i","j","k","l","m",
            "n","o","p","q","r","s","t","u","v","w","x","y","z">>
Uppers == <<"A","B","C","D","E","F","G","H","I","J","K","L","M",
            "N","O","P","Q","R","S","T","U","V","W","X","Y","Z">>

\* the characters str.strip() removes that the model's queries can hold
Whitespace == {" ", "\t", "\n"}

LowerChar(c) ==
    IF \E i \in 1..Len(Uppers) : Uppers[i] = c
    THEN Lowers[CHOOSE i \in 1..Len(Uppers) : Uppers[i] = c]
    ELSE c

UpperChar(c) ==
    IF \E i \in 1..Len(Lowers) : Lowers[i] = c
    THEN Uppers[CHOOSE i \in 1..Len(Lowers) : Lowers[i] = c]
    ELSE c

\* s.lower()
Lower(s) == [i \in 1..Len(s) |-> LowerChar(s[i])]

\* s.strip(): drop the leading and the trailing run of whitespace
Strip(s) ==
    LET keep == {i \in 1..Len(s) : s[i] \notin Whitespace}
    IN  IF keep = {} THEN <<>>
        ELSE LET first == CHOOSE i \in keep : \A j \in keep : i <= j
                 last  == CHOOSE i \in keep : \A j \in keep : j <= i
             IN  SubSeq(s, first, last)

(***************************************************************************)
(* Dashboard page: the static fallback table                               *)
(***************************************************************************)
city_database ==
  <<
     [key |-> <<"a", "t", "l", "a", "n", "t", "a">>,
      lat |-> 337490, lon |-> -843880, formatted_name |-> "Atlanta, Georgia, USA"],
     [key |-> <<"n", "e", "w", " ", "y", "o", "r", "k">>,
      lat |-> 407128, lon |-> -740060, formatted_name |-> "New York, New York, USA"],
     [key |-> <<"l", "o", "s", " ", "a", "n", "g", "e", "l", "e", "s">>,
      lat |-> 340522, lon |-> -1182437, formatted_name |-> "Los Angeles, California, USA"],
     [key |-> <<"c", "h", "i", "c", "a", "g", "o">>,
      lat |-> 418781, lon |-> -876298, formatted_name |-> "Chicago, Illinois, USA"],
     [key |-> <<"h", "o", "u", "s", "t", "o", "n">>,
      lat |-> 297604, lon |-> -953698, formatted_name |-> "Houston, Texas, USA"],
     [key |-> <<"m", "i", "a", "m", "i">>,
      lat |-> 257617, lon |-> -801918, formatted_name |-> "Miami, Florida, USA"],
     [key |-> <<"b", "o", "s", "t", "o", "n">>,
      lat |-> 423601, lon |-> -710589, formatted_name |-> "Boston, Massachusetts, USA"],
     [key |-> <<"s", "e", "a", "t", "t", "l", "e">>,
      lat |-> 476062, lon |-> -1223321, formatted_name |-> "Seattle, Washington, USA"],
     [key |-> <<"s", "a", "n", " ", "f", "r", "a", "n", "c", "i", "s", "c", "o">>,
      lat |-> 377749, lon |-> -1224194, formatted_name |-> "San Francisco, California, USA"],
     [key |-> <<"d", "e", "n", "v", "e", "r">>,
      lat |-> 397392, lon |-> -1049903, formatted_name |-> "Denver, Colorado, USA"],
     [key |-> <<"w", "a", "s", "h", "i", "n", "g", "t", "o", "n">>,
      lat |-> 389072, lon |-> -770369, formatted_name |-> "Washington, D.C., USA"],
     [key |-> <<"p", "h", "i", "l", "a", "d", "e", "l", "p", "h", "i", "a">>,
      lat |-> 399526, lon |-> -751652, formatted_name |-> "Philadelphia, Pennsylvania, USA"],
     [key |-> <<"p", "h", "o", "e", "n", "i", "x">>,
      lat |-> 334484, lon |-> -1120740, formatted_name |-> "Phoenix, Arizona, USA"],
     [key |-> <<"l", "a", "s", " ", "v", "e", "g", "a", "s">>,
      lat |-> 361699, lon |-> -1151398, formatted_name |-> "Las Vegas, Nevada, USA"],
     [key |-> <<"p", "o", "r", "t", "l", "a", "n", "d">>,
      lat |-> 455152, lon |-> -1226784, formatted_name |-> "Portland, Oregon, USA"],
     [key |-> <<"a", "u", "s", "t", "i", "n">>,
      lat |-> 302672, lon |-> -977431, formatted_name |-> "Austin, Texas, USA"],
     [key |-> <<"n", "a", "s", "h", "v", "i", "l", "l", "e">>,
      lat |-> 361627, lon |-> -867816, formatted_name |-> "Nashville, Tennessee, USA"],
     [key |-> <<"l", "o", "n", "d", "o", "n">>,
      lat |-> 515074, lon |-> -1278, formatted_name |-> "London, United Kingdom"],
     [key |-> <<"p", "a", "r", "i", "s">>,
      lat |-> 488566, lon |-> 23522, formatted_name |-> "Paris, France"],
     [key |-> <<"t", "o", "k", "y", "o">>,
      lat |-> 356762, lon |-> 1396503, formatted_name |-> "Tokyo, Japan"],
     [key |-> <<"s", "y", "d", "n", "e", "y">>,
      lat |-> 338688, lon |-> 1512093, formatted_name |-> "Sydney, Australia"],
     [key |-> <<"t", "o", "r", "o", "n", "t", "o">>,
      lat |-> 436532, lon |-> -793832, formatted_name |-> "Toronto, Canada"],
     [key |-> <<"b", "e", "r", "l", "i", "n">>,
      lat |-> 525200, lon |-> 134050, formatted_name |-> "Berlin, Germany"],
     [key |-> <<"r", "o", "m", "e">>,
      lat |-> 419028, lon |-> 124964, formatted_name |-> "Rome, Italy"],
     [key |-> <<"m", "a", "d", "r", "i", "d">>,
      lat |-> 404168, lon |-> -37038, formatted_name |-> "Madrid, Spain"],
     [key |-> <<"a", "m", "s", "t", "e", "r", "d", "a", "m">>,
      lat |-> 523676, lon |-> 49041, formatted_name |-> "Amsterdam, Netherlands"],
     [key |-> <<"d", "u", "b", "a", "i">>,
      lat |-> 252048, lon |-> 552708, formatted_name |-> "Dubai, UAE"],
     [key |-> <<"s", "i", "n", "g", "a", "p", "o", "r", "e">>,
      lat |-> 13521, lon |-> 1038198, formatted_name |-> "Singapore"],
     [key |-> <<"h", "o", "n", "g", " ", "k", "o", "n", "g">>,
      lat |-> 223193, lon |-> 1141694, formatted_name |-> "Hong Kong"],
     [key |-> <<"m", "o", "s", "c", "o", "w">>,
      lat |-> 557558, lon |-> 376173, formatted_name |-> "Moscow, Russia"],
     [key |-> <<"b", "e", "i", "j", "i", "n", "g">>,
      lat |-> 399042, lon |-> 1164074, formatted_name |-> "Beijing, China"],
     [key |-> <<"m", "u", "m", "b", "a", "i">>,
      lat |-> 190760, lon |-> 728777, formatted_name |-> "Mumbai, India"],
     [key |-> <<"r", "i", "o", " ", "d", "e", " ", "j", "a", "n", "e", "i", "r", "o">>,
      lat |-> -229068, lon |-> -431729, formatted_name |-> "Rio de Janeiro, Brazil"],
     [key |-> <<"b", "a", "r", "c", "e", "l", "o", "n", "a">>,
      lat |-> 413851, lon |-> 21734, formatted_name |-> "Barcelona, Spain"],
     [key |-> <<"m", "e", "l", "b", "o", "u", "r", "n", "e">>,
      lat |-> -378136, lon |-> 1449631, formatted_name |-> "Melbourne, Australia"],
     [key |-> <<"v", "a", "n", "c", "o", "u", "v", "e", "r">>,
      lat |-> 492827, lon |-> -1231207, formatted_name |-> "Vancouver, Canada"],
     [key |-> <<"b", "a", "n", "g", "k", "o", "k">>,
      lat |-> 137563, lon |-> 1005018, formatted_name |-> "Bangkok, Thailand"]
  >>

CityKeys == {city_database[i].key : i \in 1..Len(city_database)}

\* the names the st.info suggestion lists as guaranteed to work
SuggestedCities ==
    <<"Atlanta", "New York", "Los Angeles", "Chicago", "Miami", "Boston",
      "Seattle", "San Francisco", "Denver", "Austin",
      "London", "Paris", "Tokyo", "Sydney", "Toronto", "Berlin", "Rome",
      "Madrid", "Dubai", "Singapore", "Barcelona">>

Coords(lat, lon, name) ==
    [kind |-> "coords", lat |-> lat, lon |-> lon, name |-> name]

\* the normalisation without the strip()
NormalizeCity_NoStrip(city_name) == Lower(city_name)

\* city_name.lower().strip()
NormalizeCity(city_name) == Strip(Lower(city_name))

IsPrefix(a, b) == Len(a) <= Len(b) /\ SubSeq(b, 1, Len(a)) = a

\* a lookup that also accepts a query a key is a prefix of
fallback_city_lookup_prefix(city_name) ==
    LET city_lower == NormalizeCity(city_name)
        hits == {i \in 1..Len(city_database) :
                    IsPrefix(city_database[i].key, city_lower)}
    IN  IF hits # {}
        THEN LET e == city_database[CHOOSE i \in hits : \A j \in hits : i <= j]
             IN  [ret  |-> Coords(e.lat, e.lon, e.formatted_name),
                  msgs |-> <<>>]
        ELSE [ret  |-> NoneVal,
              msgs |-> << [kind |-> "error", text |-> "not found in database"],
                          [kind |-> "info",  text |-> "guaranteed to work",
                           cities |-> SuggestedCities] >>]

\* fallback_city_lookup: the returned value and the messages shown
fallback_city_lookup(city_name) ==
    LET city_lower == NormalizeCity(city_name)
    IN  IF city_lower \in CityKeys
        THEN LET e == city_database[CHOOSE i \in 1..Len(city_database) :
                                        city_database[i].key = city_lower]
             IN  [ret  |-> Coords(e.lat, e.lon, e.formatted_name),
                  msgs |-> <<>>]
        ELSE [ret  |-> NoneVal,
              msgs |-> << [kind |-> "error", text |-> "not found in database"],
                          [kind |-> "info",  text |-> "guaranteed to work",
                           cities |-> SuggestedCities] >>]

(***************************************************************************)
(* Dashboard page: WMO weather code -> (label, icon).  An icon is written  *)
(* as the code points of its emoji.                                        *)
(***************************************************************************)
weather_codes ==
    0 :> [label |-> "Clear sky", icon |-> "U+2600 U+FE0F"] @@
    1 :> [label |-> "Mainly clear", icon |-> "U+1F324 U+FE0F"] @@
    2 :> [label |-> "Partly cloudy", icon |-> "U+26C5"] @@
    3 :> [label |-> "Overcast", icon |-> "U+2601 U+FE0F"] @@
    45 :> [label |-> "Foggy", icon |-> "U+1F32B U+FE0F"] @@
    48 :> [label |-> "Foggy", icon |-> "U+1F32B U+FE0F"] @@
    51 :> [label |-> "Light drizzle", icon |-> "U+1F326 U+FE0F"] @@
    53 :> [label |-> "Moderate drizzle", icon |-> "U+1F326 U+FE0F"] @@
    55 :> [label |-> "Dense drizzle", icon |-> "U+1F327 U+FE0F"] @@
    61 :> [label |-> "Slight rain", icon |-> "U+1F327 U+FE0F"] @@
    63 :> [label |-> "Moderate rain", icon |-> "U+1F327 U+FE0F"] @@
    65 :> [label |-> "Heavy rain", icon |-> "U+1F327 U+FE0F"] @@
    71 :> [label |-> "Slight snow", icon |-> "U+1F328 U+FE0F"] @@
    73 :> [label |-> "Moderate snow", icon |-> "U+1F328 U+FE0F"] @@
    75 :> [label |-> "Heavy snow", icon |-> "U+2744 U+FE0F"] @@
    77 :> [label |-> "Snow grains", icon |-> "U+2744 U+FE0F"] @@
    80 :> [label |-> "Slight rain showers", icon |-> "U+1F326 U+FE0F"] @@
    81 :> [label |-> "Moderate rain showers", icon |-> "U+1F327 U+FE0F"] @@
    82 :> [label |-> "Violent rain showers", icon |-> "U+26C8 U+FE0F"] @@
    85 :> [label |-> "Slight snow showers", icon |-> "U+1F328 U+FE0F"] @@
    86 :> [label |-> "Heavy snow showers", icon |-> "U+2744 U+FE0F"] @@
    95 :> [label |-> "Thunderstorm", icon |-> "U+26C8 U+FE0F"] @@
    96 :> [label |-> "Thunderstorm with hail", icon |-> "U+26C8 U+FE0F"] @@
    99 :> [label |-> "Thunderstorm with hail", icon |-> "U+26C8 U+FE0F"]

UnknownDescription == [label |-> "Unknown", icon |-> "U+1F321 U+FE0F"]

\* the same lookup by subscript, weather_codes[weather_code], which raises
\* KeyError for a code that is no key
get_weather_description_subscript(weather_code) ==
    IF weather_code \in DOMAIN weather_codes
    THEN weather_codes[weather_code]
    ELSE [kind |-> "raise", exc |-> "KeyError"]

\* weather_codes.get(weather_code, ("Unknown", thermometer))
get_weather_description(weather_code) ==
    IF weather_code \in DOMAIN weather_codes
    THEN weather_codes[weather_code]
    ELSE UnknownDescription

DescIdle ==
    /\ desc_code = 0
    /\ desc_result = Unset
    /\ desc_insights = Unset
    /\ desc_chatbot = Unset

(***************************************************************************)
(* Dashboard page: process_hourly_forecast                                 *)
(*                                                                         *)
(* A JSON object is a function from its keys; the empty object is          *)
(* EmptyDict.  An hourly time string "YYYY-MM-DDTHH:00" is the record      *)
(* [day, hour], day counted from the first day of the response.            *)
(***************************************************************************)
EmptyDict == [k \in {} |-> 0]

IsNone(x) == DOMAIN x = {"kind"} /\ x.kind = "None"

\* what get_gemini_key() can return: None (no GEMINI_API_KEY secret), an
\* empty secret, a key
GeminiKeys == {NoneVal, [key |-> ""], [key |-> "GEMINI"]}

\* a key test that lets an empty secret through
HasGeminiKey_not_none(k) == ~IsNone(k)

\* Insights lines 166-167, chatbot lines 206-207: `if not gemini_key: st.stop()`
HasGeminiKey(k) == ~IsNone(k) /\ k.key # ""

Raise(exc) == [kind |-> "raise", exc |-> exc]

DataFrame(rows) == [kind |-> "DataFrame", rows |-> rows]

HoursPerDay == 24

MinOf(a, b) == IF a <= b THEN a ELSE b

\* pd.to_datetime(s): the instant, in hours from the response's first midnight
to_datetime(iso) == iso.day * HoursPerDay + iso.hour

\* the fields of hourly a row reads, in the order the loop body reads them
HourlyFieldOrder ==
    <<"weather_code", "time", "temperature_2m", "apparent_temperature",
      "relative_humidity_2m", "precipitation_probability", "wind_speed_10m",
      "cloud_cover">>

\* row i of the table (i from 1; the code's index is i - 1)
HourlyRow(hourly, i) ==
    LET d == get_weather_description(hourly.weather_code[i])
    IN  [datetime           |-> to_datetime(hourly.time[i]),
         date               |-> hourly.time[i].day,
         time               |-> hourly.time[i].hour,
         temperature        |-> hourly.temperature_2m[i],
         feels_like         |-> hourly.apparent_temperature[i],
         humidity           |-> hourly.relative_humidity_2m[i],
         precipitation_prob |-> hourly.precipitation_probability[i],
         wind_speed         |-> hourly.wind_speed_10m[i],
         clouds             |-> hourly.cloud_cover[i],
         weather_code       |-> hourly.weather_code[i],
         weather_desc       |-> d.label,
         weather_emoji      |-> d.icon]

\* the exception row i raises, or NoneVal: a missing key is a KeyError, an
\* array that ends before i an IndexError; the first field read decides
RowFailure(hourly, i) ==
    LET bad == {k \in 1..Len(HourlyFieldOrder) :
                   \/ HourlyFieldOrder[k] \notin DOMAIN hourly
                   \/ Len(hourly[HourlyFieldOrder[k]]) < i}
    IN  IF bad = {} THEN NoneVal
        ELSE LET k == CHOOSE k \in bad : \A j \in bad : k <= j
             IN  IF HourlyFieldOrder[k] \notin DOMAIN hourly
                 THEN Raise("KeyError") ELSE Raise("IndexError")

\* the loop over range(min(hours_to_show, len(hourly['time'])))
HourlyLoop(hourly, n) ==
    LET failing == {i \in 1..n : ~IsNone(RowFailure(hourly, i))}
    IN  IF failing = {}
        THEN DataFrame([i \in 1..n |-> HourlyRow(hourly, i)])
        ELSE RowFailure(hourly, CHOOSE i \in failing : \A j \in failing : i <= j)

\* the function without its first two lines
process_hourly_forecast_unguarded(forecast_data, days) ==
    IF IsNone(forecast_data)
    THEN Raise("TypeError")
    ELSE IF "hourly" \notin DOMAIN forecast_data
    THEN Raise("KeyError")
    ELSE HourlyLoop(forecast_data.hourly,
                    MinOf(days * HoursPerDay, Len(forecast_data.hourly.time)))

\* the function with the table cut one row short
process_hourly_forecast_short(forecast_data, days) ==
    IF \/ IsNone(forecast_data)
       \/ DOMAIN forecast_data = {}
       \/ "hourly" \notin DOMAIN forecast_data
    THEN NoneVal
    ELSE IF "time" \notin DOMAIN forecast_data.hourly
    THEN Raise("KeyError")
    ELSE HourlyLoop(forecast_data.hourly,
                    MinOf(days * HoursPerDay - 1, Len(forecast_data.hourly.time)))

process_hourly_forecast(forecast_data, days) ==
    IF \/ IsNone(forecast_data)
       \/ DOMAIN forecast_data = {}
       \/ "hourly" \notin DOMAIN forecast_data
    THEN NoneVal
    ELSE LET hourly == forecast_data.hourly
         IN  IF "time" \notin DOMAIN hourly
             THEN Raise("KeyError")
             ELSE HourlyLoop(hourly,
                             MinOf(days * HoursPerDay, Len(hourly.time)))

(***************************************************************************)
(* pandas statistics of the forecast section.                              *)
(*                                                                         *)
(* Temperatures are binary floating-point numbers.  The model keeps        *)
(* Precision significant bits (a double keeps 53) and writes a number as   *)
(* an integer count of the smallest step it resolves; every operation      *)
(* rounds its exact result to the nearest number of Precision bits, ties   *)
(* to the even one, as IEEE 754 does.  Operands are at least 2^Precision   *)
(* in magnitude, so every result is a whole number of steps.               *)
(***************************************************************************)
Precision == 4

RECURSIVE Pow2(_)
Pow2(n) == IF n = 0 THEN 1 ELSE 2 * Pow2(n - 1)

Abs(x) == IF x < 0 THEN -x ELSE x

\* the spacing of the floats around x >= 0
RECURSIVE Spacing(_)
Spacing(x) == IF x < Pow2(Precision) THEN 1 ELSE 2 * Spacing(x \div 2)

\* the float nearest to n/d (n >= 0, d > 0), ties to even
RoundQuotient(n, d) ==
    LET u == Spacing(n \div d)
        q == n \div (d * u)
        r == n % (d * u)
        up == 2 * r > d * u \/ (2 * r = d * u /\ q % 2 = 1)
    IN  (IF up THEN q + 1 ELSE q) * u

\* float addition and float division by a count
FAdd(a, b) ==
    IF a + b >= 0 THEN RoundQuotient(a + b, 1) ELSE -RoundQuotient(-(a + b), 1)

FDiv(a, n) == IF a >= 0 THEN RoundQuotient(a, n) ELSE -RoundQuotient(-a, n)

\* values.sum(): numpy adds a short array (fewer than 8 items) in order
RECURSIVE FSum(_, _)
FSum(values, k) == IF k = 0 THEN 0 ELSE FAdd(FSum(values, k - 1), values[k])

\* Series.sum() where Series.mean() was meant
series_mean_sum_only(values) == FSum(values, Len(values))

\* Series.mean(): the_sum / count
series_mean(values) == FDiv(FSum(values, Len(values)), Len(values))

series_max(values) ==
    values[CHOOSE i \in 1..Len(values) : \A j \in 1..Len(values) : values[j] <= values[i]]

series_min(values) ==
    values[CHOOSE i \in 1..Len(values) : \A j \in 1..Len(values) : values[i] <= values[j]]

Column(rows, name) == [i \in 1..Len(rows) |-> rows[i][name]]

\* the labels in ascending order of Python's string comparison
SortedLabels ==
    <<"Clear sky", "Dense drizzle", "Foggy", "Heavy rain", "Heavy snow",
      "Heavy snow showers", "Light drizzle", "Mainly clear",
      "Moderate drizzle", "Moderate rain", "Moderate rain showers",
      "Moderate snow", "Overcast", "Partly cloudy", "Slight rain",
      "Slight rain showers", "Slight snow", "Slight snow showers",
      "Snow grains", "Thunderstorm", "Thunderstorm with hail", "Unknown",
      "Violent rain showers">>

LabelRank(l) == CHOOSE i \in 1..Len(SortedLabels) : SortedLabels[i] = l

CountOf(v, values) == Cardinality({i \in 1..Len(values) : values[i] = v})

\* the distinct values of values[1..k], in order of first appearance (the
\* order in which the hash table of Series.mode holds them)
RECURSIVE FirstSeen(_, _)
FirstSeen(values, k) ==
    IF k = 0 THEN <<>>
    ELSE LET before == FirstSeen(values, k - 1)
         IN  IF \E i \in 1..Len(before) : before[i] = values[k]
             THEN before ELSE Append(before, values[k])

\* the values of the highest count, in hash-table order
ModeCandidates(values) ==
    LET seen == FirstSeen(values, Len(values))
        top  == CHOOSE c \in {CountOf(seen[i], values) : i \in 1..Len(seen)} :
                    \A i \in 1..Len(seen) : CountOf(seen[i], values) <= c
        IsTop(v) == CountOf(v, values) = top
    IN  SelectSeq(seen, IsTop)

\* np.sort of a sequence of labels (insertion sort)
RECURSIVE SortLabels(_, _)
SortLabels(labels, k) ==
    IF k = 0 THEN <<>>
    ELSE LET sorted == SortLabels(labels, k - 1)
             x      == labels[k]
             low    == {i \in 1..Len(sorted) : LabelRank(sorted[i]) <= LabelRank(x)}
             n      == Cardinality(low)
         IN  SubSeq(sorted, 1, n) \o <<x>> \o SubSeq(sorted, n + 1, Len(sorted))

\* the modes as the hash table yields them, without the sort
series_mode_unsorted(values) == ModeCandidates(values)

\* Series.mode(): the most frequent values, sorted
series_mode(values) ==
    SortLabels(ModeCandidates(values), Len(ModeCandidates(values)))

\* Series.value_counts(): the distinct labels by falling count, labels of
\* equal count in order of first appearance (insertion sort)
RECURSIVE SortByCount(_, _, _)
SortByCount(seen, values, k) ==
    IF k = 0 THEN <<>>
    ELSE LET sorted == SortByCount(seen, values, k - 1)
             x      == seen[k]
             ahead  == {i \in 1..Len(sorted) :
                          CountOf(sorted[i], values) >= CountOf(x, values)}
             n      == Cardinality(ahead)
         IN  SubSeq(sorted, 1, n) \o <<x>> \o SubSeq(sorted, n + 1, Len(sorted))

value_counts(values) ==
    LET seen == FirstSeen(values, Len(values))
    IN  SortByCount(seen, values, Len(seen))

\* df.groupby('weather_desc')['weather_emoji'].first().values: one icon per
\* label, that of the label's first row, the labels in sorted order
groupby_first(rows) ==
    LET labels == Column(rows, "weather_desc")
        seen   == FirstSeen(labels, Len(labels))
        keys   == SortLabels(seen, Len(seen))
        FirstRow(l) == CHOOSE i \in 1..Len(rows) :
                          /\ rows[i].weather_desc = l
                          /\ \A j \in 1..Len(rows) :
                                rows[j].weather_desc = l => i <= j
    IN  [k \in 1..Len(keys) |-> rows[FirstRow(keys[k])].weather_emoji]

\* lines 479-485: the rows of the conditions chart; the Emoji column is
\* assigned by position
weather_counts(rows) ==
    LET labels == Column(rows, "weather_desc")
        counts == value_counts(labels)
        emojis == groupby_first(rows)
    IN  [k \in 1..Len(counts) |->
            [Condition |-> counts[k],
             Count     |-> CountOf(counts[k], labels),
             Emoji     |-> emojis[k]]]

\* lines 457-485 and 622: the statistics of a non-empty table
ForecastStats(rows) ==
    LET temps == Column(rows, "temperature")
        max_temp == series_max(temps)
        min_temp == series_min(temps)
    IN  [kind |-> "stats",
         avg_temp |-> series_mean(temps),
         max_temp |-> max_temp,
         min_temp |-> min_temp,
         temp_range |-> FAdd(max_temp, -min_temp),
         most_common_weather |-> series_mode(Column(rows, "weather_desc"))[1],
         weather_counts |-> weather_counts(rows)]

ShapeIdle ==
    /\ fc_data = NoneVal
    /\ fc_days = 1
    /\ df_forecast = Unset
    /\ fc_stats = Unset

\* chatbot page, lines 77-81: the table inside fetch_weather_for_chatbot
chatbot_weather_codes ==
    0 :> "Clear sky" @@
    1 :> "Mainly clear" @@
    2 :> "Partly cloudy" @@
    3 :> "Overcast" @@
    45 :> "Foggy" @@
    61 :> "Rain" @@
    63 :> "Rain" @@
    65 :> "Heavy rain" @@
    71 :> "Snow" @@
    73 :> "Snow" @@
    75 :> "Heavy snow" @@
    95 :> "Thunderstorm"

\* line 84: weather_codes.get(current['weather_code'], "Unknown")
chatbot_condition(weather_code) ==
    IF weather_code \in DOMAIN chatbot_weather_codes
    THEN chatbot_weather_codes[weather_code]
    ELSE "Unknown"

(***************************************************************************)
(* Insights page: process_weather_for_llm                                  *)
(*                                                                         *)
(* A number of the response is an integer count of thousandths; the        *)
(* model's numbers are multiples of 0.125, which a double holds exactly.   *)
(* A daily time string "YYYY-MM-DD" is the record [year, month, day].      *)
(***************************************************************************)
insights_codes ==
    0 :> "Clear sky" @@
    1 :> "Mainly clear" @@
    2 :> "Partly cloudy" @@
    3 :> "Overcast" @@
    45 :> "Foggy" @@
    48 :> "Foggy" @@
    51 :> "Light drizzle" @@
    53 :> "Drizzle" @@
    55 :> "Heavy drizzle" @@
    61 :> "Slight rain" @@
    63 :> "Rain" @@
    65 :> "Heavy rain" @@
    71 :> "Slight snow" @@
    73 :> "Snow" @@
    75 :> "Heavy snow" @@
    77 :> "Snow grains" @@
    80 :> "Rain showers" @@
    81 :> "Rain showers" @@
    82 :> "Heavy rain showers" @@
    85 :> "Snow showers" @@
    86 :> "Heavy snow showers" @@
    95 :> "Thunderstorm" @@
    96 :> "Thunderstorm with hail" @@
    99 :> "Heavy thunderstorm"

\* codes.get(weather_code, "Unknown")
insights_description(weather_code) ==
    IF weather_code \in DOMAIN insights_codes
    THEN insights_codes[weather_code]
    ELSE "Unknown"

\* a cut to one decimal instead of round(x, 1)
round1_truncating(x) == IF x >= 0 THEN x - (x % 100) ELSE -((-x) - ((-x) % 100))

\* round(x, 1): the nearest tenth, an exact half to the even tenth
round1(x) ==
    LET a == Abs(x)
        q == a \div 100
        r == a % 100
        m == IF r > 50 \/ (r = 50 /\ q % 2 = 1) THEN q + 1 ELSE q
    IN  IF x >= 0 THEN 100 * m ELSE -(100 * m)

IsLeap(y) == (y % 4 = 0 /\ y % 100 # 0) \/ y % 400 = 0

DaysInMonth(y, m) ==
    IF m = 2 THEN (IF IsLeap(y) THEN 29 ELSE 28)
    ELSE IF m \in {4, 6, 9, 11} THEN 30 ELSE 31

RECURSIVE DaysBeforeMonth(_, _)
DaysBeforeMonth(y, m) ==
    IF m = 1 THEN 0 ELSE DaysBeforeMonth(y, m - 1) + DaysInMonth(y, m - 1)

\* date.toordinal(): the day number, 0001-01-01 being day 1
ToOrdinal(d) ==
    LET y == d.year - 1
    IN  y * 365 + (y \div 4) - (y \div 100) + (y \div 400)
          + DaysBeforeMonth(d.year, d.month) + d.day

WeekdayNames == <<"Monday", "Tuesday", "Wednesday", "Thursday", "Friday",
                  "Saturday", "Sunday">>

MonthNames == <<"January", "February", "March", "April", "May", "June",
                "July", "August", "September", "October", "November",
                "December">>

\* datetime.fromisoformat(s).strftime('%A, %B %d')
FormatDate(d) ==
    [weekday |-> WeekdayNames[((ToOrdinal(d) + 6) % 7) + 1],
     month   |-> MonthNames[d.month],
     day     |-> d.day]

MaxContextDays == 5

\* a context that summarises every day of the response
process_weather_for_llm_all_days(weather_data, city_name) ==
    LET current == weather_data.current
        daily   == weather_data.daily
        n       == Len(daily.time)
    IN  [city |-> city_name,
         current |->
            [temperature |-> round1(current.temperature_2m),
             feels_like  |-> round1(current.apparent_temperature),
             humidity    |-> current.relative_humidity_2m,
             wind_speed  |-> round1(current.wind_speed_10m),
             condition   |-> insights_description(current.weather_code)],
         forecast |->
            [i \in 1..n |->
                [date          |-> FormatDate(daily.time[i]),
                 temp_max      |-> round1(daily.temperature_2m_max[i]),
                 temp_min      |-> round1(daily.temperature_2m_min[i]),
                 precipitation |-> round1(daily.precipitation_sum[i]),
                 wind_max      |-> round1(daily.wind_speed_10m_max[i]),
                 condition     |-> insights_description(daily.weather_code[i])]]]

process_weather_for_llm(weather_data, city_name) ==
    LET current == weather_data.current
        daily   == weather_data.daily
        n       == MinOf(MaxContextDays, Len(daily.time))
    IN  [city |-> city_name,
         current |->
            [temperature |-> round1(current.temperature_2m),
             feels_like  |-> round1(current.apparent_temperature),
             humidity    |-> current.relative_humidity_2m,
             wind_speed  |-> round1(current.wind_speed_10m),
             condition   |-> insights_description(current.weather_code)],
         forecast |->
            [i \in 1..n |->
                [date          |-> FormatDate(daily.time[i]),
                 temp_max      |-> round1(daily.temperature_2m_max[i]),
                 temp_min      |-> round1(daily.temperature_2m_min[i]),
                 precipitation |-> round1(daily.precipitation_sum[i]),
                 wind_max      |-> round1(daily.wind_speed_10m_max[i]),
                 condition     |-> insights_description(daily.weather_code[i])]]]

CtxIdle ==
    /\ ctx_weather = NoneVal
    /\ ctx_city = ""
    /\ ctx_out = Unset
    /\ ctx_report = Unset

(***************************************************************************)
(* Dashboard widgets (Weather Analysis page, lines 270-296).  The degree   *)
(* sign is written as its code point.                                      *)
(***************************************************************************)
DefaultCity == <<"A","t","l","a","n","t","a">>

UnitOptions == <<"Celsius (U+00B0 C)", "Fahrenheit (U+00B0 F)">>

CelsiusOptions == {"Celsius (U+00B0 C)"}

SliderMin == 1

SliderMax == 7

SliderDefault == 3

\* a fresh session: every widget at its default, nothing stored
DashIdle ==
    /\ city_input = DefaultCity
    /\ temp_unit_display = UnitOptions[1]
    /\ forecast_days = SliderDefault
    /\ session_state = EmptyDict
    /\ wx_page = "none"
    /\ wx_requests = <<>>
    /\ wx_msgs = <<>>
    /\ wx_calls = <<>>
    /\ wx_action = [handler |-> "none"]

\* the chatbot page not opened: lines 184-194 leave an empty transcript,
\* no handle and chatbot_initialized False
ChatIdle ==
    /\ gemini_key = [key |-> "GEMINI"]
    /\ chat_messages = <<>>
    /\ chat_session = NoneVal
    /\ chatbot_initialized = FALSE
    /\ chat_last = "none"
    /\ chat_calls = <<>>
    /\ chat_notes = <<>>
    /\ chat_handles = 0
    /\ chat_stale = {}

TextIdle ==
    /\ txt_fn = "none"
    /\ txt_in = <<>>
    /\ txt_out = Unset

Sessions == {"A", "B"}

\* a session nobody has opened a page in: nothing stored, and the chatbot's
\* lines 184-194 not yet run
FreshSession ==
    [store |-> EmptyDict, chat_messages |-> <<>>, chat_session |-> NoneVal,
     chatbot_initialized |-> FALSE]

SessIdle ==
    /\ sess = [s \in Sessions |-> FreshSession]
    /\ sess_sent = <<>>
    /\ sess_actor = "none"

(***************************************************************************)
(* The geocoding services, as the environment                              *)
(***************************************************************************)
\* what st.secrets can hold for OPENCAGE_API_KEY: no secrets file at all
\* (st.secrets.get raises), the key absent or empty, the key set
SecretStates == {"no_secrets_file", "empty", "set"}

\* api_key after the try/except around st.secrets.get
ApiKeyOf(secret) == IF secret = "set" THEN "KEY" ELSE ""

\* places a geocoding service may answer with; the first is the service's
\* own idea of Atlanta, which is not the table's triple
ServiceLocations ==
    { [lat |-> 337489, lon |-> -843902,
       formatted |-> "Atlanta, Fulton County, Georgia, United States of America"],
      [lat |-> 488588, lon |-> 23200,
       formatted |-> "Paris, Ile-de-France, Metropolitan France, France"] }

\* one reply of a geocoding service to one request
GeoReplies ==
    { [kind |-> k] : k \in {"transport_error", "invalid_json", "no_results_key",
                            "empty_results", "malformed_result"} }
    \cup { [kind |-> "result", loc |-> l] : l \in ServiceLocations }

NoReply == [kind |-> "no_request"]

GeocodeTimeout == 10

(***************************************************************************)
(* get_coordinates, page by page.  Each returns the value, the requests    *)
(* issued and the messages shown.                                          *)
(***************************************************************************)
\* Dashboard page: OpenCage when a key is configured, then the table
get_coordinates(city_name, secret, reply) ==
    LET api_key == ApiKeyOf(secret)
        request == [service |-> "opencage", q |-> city_name, limit |-> 1,
                    timeout |-> GeocodeTimeout]
        fb      == fallback_city_lookup(city_name)
    IN  IF api_key # ""
        THEN \* requests.get, response.json(), data['results'][0][...]:
             \* any exception is swallowed by the bare except
             IF reply.kind = "result"
             THEN [ret |-> Coords(reply.loc.lat, reply.loc.lon,
                                  reply.loc.formatted),
                   requests |-> <<request>>,
                   msgs |-> <<>>]
             ELSE [ret |-> fb.ret, requests |-> <<request>>, msgs |-> fb.msgs]
        ELSE [ret |-> fb.ret, requests |-> <<>>, msgs |-> fb.msgs]

\* Insights page: Nominatim only
get_coordinates_insights(city_name, reply) ==
    LET request == [service |-> "nominatim", q |-> city_name, limit |-> 1,
                    timeout |-> GeocodeTimeout]
    IN  CASE reply.kind = "result" ->
               [ret |-> Coords(reply.loc.lat, reply.loc.lon, reply.loc.formatted),
                requests |-> <<request>>, msgs |-> <<>>]
          [] reply.kind = "empty_results" ->
               [ret |-> NoneVal, requests |-> <<request>>, msgs |-> <<>>]
          [] OTHER ->
               [ret |-> NoneVal, requests |-> <<request>>,
                msgs |-> << [kind |-> "error", text |-> "Error finding city"] >>]

\* Chatbot page: Nominatim only, a (lat, lon) pair, no message
get_coordinates_chatbot(city_name, reply) ==
    LET request == [service |-> "nominatim", q |-> city_name, limit |-> 1,
                    timeout |-> GeocodeTimeout]
    IN  IF reply.kind = "result"
        THEN [ret |-> [kind |-> "latlon", lat |-> reply.loc.lat,
                       lon |-> reply.loc.lon],
              requests |-> <<request>>, msgs |-> <<>>]
        ELSE [ret |-> NoneVal, requests |-> <<request>>, msgs |-> <<>>]

(***************************************************************************)
(* Queries a user can type                                                 *)
(***************************************************************************)
MaxPad == 1

\* texts that are no key of the table
NonKeyBases ==
    { <<"p","a","r","i","s",","," ","f","r","a","n","c","e">>,
      <<"p","a","r","i">>,
      <<"p","a","r","i","s","x">>,
      <<"a","t","l","a","n","t","i","s">>,
      <<"n","e","w"," "," ","y","o","r","k">>,
      <<"n","e","w","\t","y","o","r","k">>,
      <<"n","e","w","y","o","r","k">>,
      <<>> }

QueryBases == CityKeys \cup NonKeyBases

CaseKinds == {"lower", "upper", "title", "mixed"}

ApplyCase(kind, s) ==
    [i \in 1..Len(s) |->
        CASE kind = "lower" -> s[i]
          [] kind = "upper" -> UpperChar(s[i])
          [] kind = "title" -> IF i = 1 \/ s[i-1] \in Whitespace
                               THEN UpperChar(s[i]) ELSE s[i]
          [] OTHER          -> IF i % 2 = 0 THEN UpperChar(s[i]) ELSE s[i]]

PadOf(n) == [i \in 1..n |-> IF i % 2 = 1 THEN " " ELSE "\t"]

Queries ==
    { PadOf(l) \o ApplyCase(k, b) \o PadOf(t) :
        l \in 0..MaxPad, t \in 0..MaxPad, k \in CaseKinds, b \in QueryBases }

(***************************************************************************)
(* Specification SpecGeo: calls of the three get_coordinates.  The first   *)
(* call takes any query; a later call, on the same page, takes one of      *)
(* FollowUpQueries, so that every lookup is followed by lookups of the     *)
(* same and of other names.                                                *)
(***************************************************************************)
MaxCalls == 2

FollowUpQueries ==
    { <<" ","p","a","r","i","s","\t">>,
      <<"P","a","r","i","s",","," ","F","r","a","n","c","e">>,
      <<"A","t","l","a","n","t","a">> }

GeoInit ==
    /\ geo_page = "none"
    /\ geo_query \in Queries
    /\ geo_secret \in SecretStates
    /\ geo_reply \in GeoReplies
    /\ geo_result = NoneVal
    /\ geo_requests = <<>>
    /\ geo_msgs = <<>>
    /\ geo_calls = 0
    /\ geo_prev = NoneVal

\* the geocoder's variables in a specification that is not about it
GeoIdle ==
    /\ geo_page = "none"
    /\ geo_query = <<>>
    /\ geo_secret = "empty"
    /\ geo_reply = NoReply
    /\ geo_result = NoneVal
    /\ geo_requests = <<>>
    /\ geo_msgs = <<>>
    /\ geo_calls = 0
    /\ geo_prev = NoneVal

\* the inputs of the next call: the user's text and the service's answer
NextQueries == IF geo_calls = 0 THEN {geo_query} ELSE FollowUpQueries
NextReplies == IF geo_calls = 0 THEN {geo_reply} ELSE GeoReplies

\* the dashboard's get_coordinates
ResolveDashboard ==
    /\ geo_calls < MaxCalls
    /\ geo_page \in {"none", "dashboard"}
    /\ \E q \in NextQueries, reply \in NextReplies :
         LET out == get_coordinates(q, geo_secret, reply)
         IN  /\ geo_page' = "dashboard"
             /\ geo_query' = q
             /\ geo_reply' = reply
             /\ geo_result' = out.ret
             /\ geo_requests' = out.requests
             /\ geo_msgs' = out.msgs
    /\ geo_calls' = geo_calls + 1
    /\ geo_prev' = geo_result
    /\ UNCHANGED <<geo_secret, nonGeoVars>>

\* the Insights page's get_coordinates
ResolveInsights ==
    /\ geo_calls < MaxCalls
    /\ geo_page \in {"none", "insights"}
    /\ \E q \in NextQueries, reply \in NextReplies :
         LET out == get_coordinates_insights(q, reply)
         IN  /\ geo_page' = "insights"
             /\ geo_query' = q
             /\ geo_reply' = reply
             /\ geo_result' = out.ret
             /\ geo_requests' = out.requests
             /\ geo_msgs' = out.msgs
    /\ geo_calls' = geo_calls + 1
    /\ geo_prev' = geo_result
    /\ UNCHANGED <<geo_secret, nonGeoVars>>

\* the chatbot page's get_coordinates
ResolveChatbot ==
    /\ geo_calls < MaxCalls
    /\ geo_page \in {"none", "chatbot"}
    /\ \E q \in NextQueries, reply \in NextReplies :
         LET out == get_coordinates_chatbot(q, reply)
         IN  /\ geo_page' = "chatbot"
             /\ geo_query' = q
             /\ geo_reply' = reply
             /\ geo_result' = out.ret
             /\ geo_requests' = out.requests
             /\ geo_msgs' = out.msgs
    /\ geo_calls' = geo_calls + 1
    /\ geo_prev' = geo_result
    /\ UNCHANGED <<geo_secret, nonGeoVars>>

GeoNext == ResolveDashboard \/ ResolveInsights \/ ResolveChatbot

GeoSpecInit ==
    GeoInit /\ DescIdle /\ ShapeIdle /\ CtxIdle /\ DashIdle
    /\ ChatIdle /\ TextIdle /\ SessIdle

SpecGeo == GeoSpecInit /\ [][GeoNext]_vars

(***************************************************************************)
(* Geocoder claims                                                         *)
(***************************************************************************)
\* q is base up to letter case and surrounding whitespace
IsVariantOf(q, base) ==
    \E l \in 0..Len(q) :
        /\ l + Len(base) <= Len(q)
        /\ \A i \in 1..l : q[i] \in Whitespace
        /\ \A i \in (l + Len(base) + 1)..Len(q) : q[i] \in Whitespace
        /\ \A i \in 1..Len(base) :
              q[l + i] = base[i] \/ q[l + i] = UpperChar(base[i])

StoredTriple(i) ==
    Coords(city_database[i].lat, city_database[i].lon,
           city_database[i].formatted_name)

\* the primary geocoding path gave no place
PrimaryYieldsNothing ==
    ApiKeyOf(geo_secret) = "" \/ geo_reply.kind # "result"

Q_Atlanta == <<"A","t","l","a","n","t","a">>
Q_ParisFrance == <<"P","a","r","i","s",","," ","F","r","a","n","c","e">>

\* C1, as stated: on the dashboard, every query that is a key of the
\* fallback table up to case and surrounding whitespace resolves to exactly
\* the stored triple of that key.
C1_Original ==
    (geo_page = "dashboard") =>
        \A i \in 1..Len(city_database) :
            IsVariantOf(geo_query, city_database[i].key)
                => geo_result = StoredTriple(i)

\* C1, amended: the same, when the primary geocoding path gave no place (no
\* key configured, or the request failed or brought no usable result); and
\* "Atlanta" then gives (33.7490, -84.3880, "Atlanta, Georgia, USA").
C1_FallbackReturnsStoredTriple ==
    (geo_page = "dashboard" /\ PrimaryYieldsNothing) =>
        /\ \A i \in 1..Len(city_database) :
              IsVariantOf(geo_query, city_database[i].key)
                  => geo_result = StoredTriple(i)
        /\ geo_query = Q_Atlanta
              => geo_result = Coords(337490, -843880, "Atlanta, Georgia, USA")

\* a padded, upper-cased key resolved through the table although a key is
\* configured (the request failed)
C1_Witness ==
    /\ geo_page = "dashboard"
    /\ geo_secret = "set"
    /\ geo_reply.kind = "transport_error"
    /\ geo_query = <<" ","R","I","O"," ","D","E"," ","J","A","N","E","I","R","O"," ">>
    /\ geo_result = Coords(-229068, -431729, "Rio de Janeiro, Brazil")

\* C2, as stated: on every page, when the primary geocoding path is
\* unavailable or unsuccessful the geocoder returns the result of the static
\* table lookup, and with no key configured no geocoding request is issued.
C2_Original ==
    (geo_page # "none") =>
        /\ PrimaryYieldsNothing
              => geo_result = fallback_city_lookup(geo_query).ret
        /\ ApiKeyOf(geo_secret) = "" => geo_requests = <<>>

\* C3: on the dashboard, when the primary path gave no place and the query
\* is no key of the table up to case and surrounding whitespace, the result
\* is None and the suggestion list is shown; a key that is only a prefix of
\* the query does not match ("Paris, France"); and this holds whatever the
\* previous lookup returned.
C3_NotFoundWithoutFuzzyMatch ==
    (geo_page = "dashboard" /\ PrimaryYieldsNothing) =>
        /\ (\A i \in 1..Len(city_database) :
                ~IsVariantOf(geo_query, city_database[i].key))
              => /\ geo_result = NoneVal
                 /\ \E k \in 1..Len(geo_msgs) :
                        /\ geo_msgs[k].kind = "info"
                        /\ geo_msgs[k].cities = SuggestedCities
        /\ geo_query = Q_ParisFrance => geo_result = NoneVal
        /\ geo_result = NoneVal
              => \A i \in 1..Len(city_database) :
                     ~IsVariantOf(geo_query, city_database[i].key)

\* "Paris, France" is not found right after " paris" was found
C3_Witness ==
    /\ geo_page = "dashboard"
    /\ geo_calls = 2
    /\ geo_prev = Coords(488566, 23522, "Paris, France")
    /\ geo_query = Q_ParisFrance
    /\ PrimaryYieldsNothing
    /\ geo_result = NoneVal
    /\ Len(geo_msgs) = 2

(***************************************************************************)
(* Specification SpecDescribe: get_weather_description on any code         *)
(***************************************************************************)
MaxCode == 100

\* 9999 stands for the codes far outside the WMO range
InputCodes == (-1..MaxCode) \cup {9999}

DescInit ==
    /\ desc_code \in InputCodes
    /\ desc_result = Unset
    /\ desc_insights = Unset
    /\ desc_chatbot = Unset

Describe ==
    /\ desc_result = Unset
    /\ desc_result' = get_weather_description(desc_code)
    /\ UNCHANGED <<desc_code, desc_insights, desc_chatbot, nonDescVars>>

\* Insights page, lines 83-94: get_weather_description of the same code
DescribeInsights ==
    /\ desc_insights = Unset
    /\ desc_insights' = [label |-> insights_description(desc_code)]
    /\ UNCHANGED <<desc_code, desc_result, desc_chatbot, nonDescVars>>

\* chatbot page, lines 76-84: the condition of the same code
DescribeChatbot ==
    /\ desc_chatbot = Unset
    /\ desc_chatbot' = [label |-> chatbot_condition(desc_code)]
    /\ UNCHANGED <<desc_code, desc_result, desc_insights, nonDescVars>>

DescNext == Describe \/ DescribeInsights \/ DescribeChatbot

DescSpecInit ==
    DescInit /\ GeoIdle /\ ShapeIdle /\ CtxIdle /\ DashIdle
    /\ ChatIdle /\ TextIdle /\ SessIdle

SpecDescribe == DescSpecInit /\ [][DescNext]_vars

\* the codes of the table, as the dashboard's source lists them
TableCodes == {0, 1, 2, 3, 45, 48, 51, 53, 55, 61, 63, 65, 71, 73, 75, 77,
               80, 81, 82, 85, 86, 95, 96, 99}

\* C4: describe returns a (label, icon) pair for every code and never
\* fails; for a code of the table the pair is the table's, which is not the
\* Unknown sentinel; for every other code it is ("Unknown", thermometer);
\* describe(61) = ("Slight rain", cloud with rain), describe(9999) = Unknown.
C4_DescribeTotal ==
    (desc_result # Unset) =>
        /\ DOMAIN desc_result = {"label", "icon"}
        /\ desc_code \in TableCodes
              => /\ desc_result = weather_codes[desc_code]
                 /\ desc_result.label # "Unknown"
        /\ desc_code \notin TableCodes
              => desc_result = [label |-> "Unknown", icon |-> "U+1F321 U+FE0F"]
        /\ desc_code = 61
              => desc_result = [label |-> "Slight rain", icon |-> "U+1F327 U+FE0F"]
        /\ desc_code = 9999 => desc_result.label = "Unknown"

\* a code outside the table has been described
C4_Witness ==
    /\ desc_code = 9999
    /\ desc_result = [label |-> "Unknown", icon |-> "U+1F321 U+FE0F"]

(***************************************************************************)
(* Forecast responses of the weather API, as the environment               *)
(***************************************************************************)
\* the hourly object for the given weather codes and temperatures (two
\* sequences of one length); the other series are fixed functions of the hour
HourlyOf(codes, temps) ==
    LET n == Len(codes)
    IN  [time |-> [i \in 1..n |-> [day  |-> (i - 1) \div HoursPerDay,
                                   hour |-> (i - 1) % HoursPerDay]],
         weather_code              |-> codes,
         temperature_2m            |-> temps,
         apparent_temperature      |-> [i \in 1..n |-> temps[i] - 2],
         relative_humidity_2m      |-> [i \in 1..n |-> 40 + (i % 3) * 10],
         precipitation_probability |-> [i \in 1..n |-> (i * 15) % 100],
         wind_speed_10m            |-> [i \in 1..n |-> 5 + (i % 4)],
         cloud_cover               |-> [i \in 1..n |-> (i * 25) % 125]]

\* the daily object of a response of the given number of days
DailyOf(days) ==
    [time                |-> [i \in 1..days |-> [day |-> i - 1]],
     weather_code        |-> [i \in 1..days |-> 3],
     temperature_2m_max  |-> [i \in 1..days |-> 60 + i],
     temperature_2m_min  |-> [i \in 1..days |-> 40 + i],
     precipitation_sum   |-> [i \in 1..days |-> 0],
     wind_speed_10m_max  |-> [i \in 1..days |-> 9]]

\* codes that repeat through a long response; 9999 is no WMO code
CodeCycle == <<0, 3, 61, 9999, 45, 48, 3>>

LongCodes(n, seed) ==
    [i \in 1..n |-> CodeCycle[((i - 1 + seed) % Len(CodeCycle)) + 1]]

LongTemps(n, seed) == [i \in 1..n |-> 40 + ((i * 3 + seed) % 7) * 2]

MaxHours == 50
MaxDays == 2
MaxSeed == 1

LongForecasts ==
    { [hourly |-> HourlyOf(LongCodes(n, seed), LongTemps(n, seed)),
       daily  |-> DailyOf(1 + (n \div HoursPerDay))] :
        n \in 0..MaxHours, seed \in 0..MaxSeed }

\* responses that lack what the code expects
DegenerateForecasts ==
    { NoneVal,
      EmptyDict,
      [daily |-> DailyOf(1)],
      [latitude |-> 337490, longitude |-> -843880] }

\* an hourly object without its time array
HourlyWithoutTime(n) ==
    LET h == HourlyOf(LongCodes(n, 0), LongTemps(n, 0))
    IN  [k \in (DOMAIN h) \ {"time"} |-> h[k]]

\* an hourly object whose weather_code array is one entry short
HourlyShortCodes(n) ==
    [HourlyOf(LongCodes(n, 0), LongTemps(n, 0))
        EXCEPT !.weather_code = LongCodes(n - 1, 0)]

MalformedForecasts ==
    { [hourly |-> HourlyWithoutTime(n)] : n \in 0..2 }
    \cup { [hourly |-> HourlyShortCodes(n)] : n \in 1..3 }

(***************************************************************************)
(* Specification SpecShape: process_hourly_forecast on a stored forecast   *)
(***************************************************************************)
ShapeInit ==
    /\ fc_data \in LongForecasts \cup DegenerateForecasts \cup MalformedForecasts
    /\ fc_days \in 1..MaxDays
    /\ df_forecast = Unset
    /\ fc_stats = Unset

Processed == df_forecast.kind # "unset"

\* line 407: df_forecast = process_hourly_forecast(forecast, days=forecast_days)
ProcessHourly ==
    /\ df_forecast = Unset
    /\ df_forecast' = process_hourly_forecast(fc_data, fc_days)
    /\ UNCHANGED <<fc_data, fc_days, fc_stats, nonShapeVars>>

ShapeNext == ProcessHourly

ShapeSpecInit ==
    ShapeInit /\ GeoIdle /\ DescIdle /\ CtxIdle /\ DashIdle
    /\ ChatIdle /\ TextIdle /\ SessIdle

SpecShape == ShapeSpecInit /\ [][ShapeNext]_vars

(***************************************************************************)
(* Forecast shaper claims                                                  *)
(***************************************************************************)
LacksHourly(raw) ==
    IsNone(raw) \/ DOMAIN raw = {} \/ "hourly" \notin DOMAIN raw

\* every hourly array is present and as long as the time array
WellFormed(raw) ==
    /\ ~LacksHourly(raw)
    /\ \A k \in 1..Len(HourlyFieldOrder) :
          HourlyFieldOrder[k] \in DOMAIN raw.hourly
    /\ \A k \in 1..Len(HourlyFieldOrder) :
          Len(raw.hourly[HourlyFieldOrder[k]]) = Len(raw.hourly.time)

ExpectedLength ==
    IF fc_days * 24 <= Len(fc_data.hourly.time)
    THEN fc_days * 24 ELSE Len(fc_data.hourly.time)

\* C5: for a well-formed response and days >= 1, the table has exactly
\* min(days*24, len(hourly.time)) rows; row i carries the values at index i
\* of every hourly array and the description of weather_code[i]; the rows'
\* instants are in the source's (non-decreasing) order.
C5_FlattenHourly ==
    (Processed /\ WellFormed(fc_data)) =>
        /\ df_forecast.kind = "DataFrame"
        /\ Len(df_forecast.rows) = ExpectedLength
        /\ \A i \in 1..Len(df_forecast.rows) :
              LET r == df_forecast.rows[i]
                  h == fc_data.hourly
              IN  /\ r.datetime = h.time[i].day * 24 + h.time[i].hour
                  /\ r.date = h.time[i].day
                  /\ r.time = h.time[i].hour
                  /\ r.temperature = h.temperature_2m[i]
                  /\ r.feels_like = h.apparent_temperature[i]
                  /\ r.humidity = h.relative_humidity_2m[i]
                  /\ r.precipitation_prob = h.precipitation_probability[i]
                  /\ r.wind_speed = h.wind_speed_10m[i]
                  /\ r.clouds = h.cloud_cover[i]
                  /\ r.weather_code = h.weather_code[i]
                  /\ r.weather_desc = get_weather_description(h.weather_code[i]).label
                  /\ r.weather_emoji = get_weather_description(h.weather_code[i]).icon
                  /\ h.weather_code[i] = 61 => r.weather_desc = "Slight rain"
                  /\ h.weather_code[i] = 9999 => r.weather_desc = "Unknown"
        /\ \A i, j \in 1..Len(df_forecast.rows) :
              i <= j => df_forecast.rows[i].datetime <= df_forecast.rows[j].datetime

\* a response of more hours than asked for was cut to days*24 rows
C5_Witness ==
    /\ Processed
    /\ WellFormed(fc_data)
    /\ fc_days = 1
    /\ Len(fc_data.hourly.time) = 30
    /\ df_forecast.kind = "DataFrame"
    /\ Len(df_forecast.rows) = 24
    /\ df_forecast.rows[24].time = 23

\* C6, as stated: for a response that is empty or lacks "hourly" the
\* function returns an empty sequence of records (and does not raise).
C6_Original ==
    (Processed /\ LacksHourly(fc_data)) =>
        /\ df_forecast.kind = "DataFrame"
        /\ df_forecast.rows = <<>>

\* C6, amended: for such a response the function returns None, no table at
\* all, and does not raise.
C6_MissingHourlyGivesNone ==
    (Processed /\ LacksHourly(fc_data)) =>
        /\ df_forecast.kind = "None"
        /\ DOMAIN df_forecast = {"kind"}

\* a response with a daily object only was processed
C6_Witness ==
    /\ Processed
    /\ DOMAIN fc_data = {"daily"}
    /\ IsNone(df_forecast)

(***************************************************************************)
(* Specification SpecStats: the forecast section on short responses of     *)
(* every composition                                                       *)
(***************************************************************************)
MaxShort == 3

StatCodes == {0, 3, 45, 48}

\* the floats of Precision bits in [2^Precision, 2^(Precision+1)), and
\* their negatives
FloatVals ==
    { sgn * 2 * m : m \in Pow2(Precision - 1)..(Pow2(Precision) - 1),
                    sgn \in {1, -1} }

RECURSIVE SeqsOf(_, _)
SeqsOf(S, n) ==
    IF n = 0 THEN {<<>>}
    ELSE {Append(q, x) : q \in SeqsOf(S, n - 1), x \in S}

\* n equal temperatures, or v alternating with 2^Precision
ShortTemps(n, v, same) ==
    [i \in 1..n |-> IF same \/ i % 2 = 1 THEN v ELSE Pow2(Precision)]

ShortCodes == UNION {SeqsOf(StatCodes, k) : k \in 0..MaxShort}

ShortForecasts ==
    { [hourly |-> HourlyOf(c[1], ShortTemps(Len(c[1]), c[2], c[3])),
       daily  |-> DailyOf(1)] :
        c \in ShortCodes \X FloatVals \X BOOLEAN }

StatsInit ==
    /\ fc_data \in ShortForecasts \cup DegenerateForecasts \cup MalformedForecasts
    /\ fc_days = 1
    /\ df_forecast = Unset
    /\ fc_stats = Unset

\* line 409 onwards: the table exists and is not empty
ComputeStats ==
    /\ Processed
    /\ fc_stats = Unset
    /\ df_forecast.kind = "DataFrame"
    /\ df_forecast.rows # <<>>
    /\ fc_stats' = ForecastStats(df_forecast.rows)
    /\ UNCHANGED <<fc_data, fc_days, df_forecast, nonShapeVars>>

\* lines 634-635: no table, or an empty one
UnableToProcess ==
    /\ Processed
    /\ fc_stats = Unset
    /\ \/ df_forecast.kind = "None"
       \/ df_forecast.kind = "DataFrame" /\ df_forecast.rows = <<>>
    /\ fc_stats' = [kind |-> "error",
                    text |-> "Unable to process forecast data. Please try again."]
    /\ UNCHANGED <<fc_data, fc_days, df_forecast, nonShapeVars>>

\* line 407 raised: the script run ends there, with neither the statistics
\* nor the message of line 635
SectionRaises ==
    /\ Processed
    /\ fc_stats = Unset
    /\ df_forecast.kind = "raise"
    /\ fc_stats' = df_forecast
    /\ UNCHANGED <<fc_data, fc_days, df_forecast, nonShapeVars>>

StatsNext == ProcessHourly \/ ComputeStats \/ UnableToProcess \/ SectionRaises

StatsSpecInit ==
    StatsInit /\ GeoIdle /\ DescIdle /\ CtxIdle /\ DashIdle
    /\ ChatIdle /\ TextIdle /\ SessIdle

SpecStats == StatsSpecInit /\ [][StatsNext]_vars

(***************************************************************************)
(* Statistics claims                                                       *)
(***************************************************************************)
HaveStats == fc_stats.kind = "stats"

RowLabels == Column(df_forecast.rows, "weather_desc")
RowTemps  == Column(df_forecast.rows, "temperature")

Occurrences(l) == Cardinality({i \in 1..Len(RowLabels) : RowLabels[i] = l})

FirstIndex(l) ==
    CHOOSE i \in 1..Len(RowLabels) :
        RowLabels[i] = l /\ \A j \in 1..(i - 1) : RowLabels[j] # l

\* the labels that occur as often as any
MostFrequent ==
    {RowLabels[i] : i \in {i \in 1..Len(RowLabels) :
        \A j \in 1..Len(RowLabels) :
            Occurrences(RowLabels[j]) <= Occurrences(RowLabels[i])}}

\* C7, as stated: the mode is a most frequent label, and among several of
\* the highest count it is the one met first in the order of the records.
C7_Original ==
    HaveStats =>
        /\ fc_stats.most_common_weather \in MostFrequent
        /\ \A l \in MostFrequent :
              FirstIndex(fc_stats.most_common_weather) <= FirstIndex(l)

\* C7, amended: the mode is a most frequent label, and among several of
\* the highest count it is the least in ascending string order, wherever
\* it stands in the records.
C7_ModeIsLeastOfMostFrequent ==
    HaveStats =>
        /\ fc_stats.most_common_weather \in MostFrequent
        /\ \A l \in MostFrequent :
              LabelRank(fc_stats.most_common_weather) <= LabelRank(l)

\* "Overcast" then "Clear sky", once each: the mode is "Clear sky"
C7_Witness ==
    /\ HaveStats
    /\ RowLabels = <<"Overcast", "Clear sky">>
    /\ fc_stats.most_common_weather = "Clear sky"

AllTempsEqual == \A i \in 1..Len(RowTemps) : RowTemps[i] = RowTemps[1]

\* x is a float of the model: at most Precision significant bits
Representable(x) ==
    \E e \in 0..(Precision + 4) :
        /\ Abs(x) % Pow2(e) = 0
        /\ Abs(x) \div Pow2(e) < Pow2(Precision)

\* a label that occurs more often than every other label
StrictPlurality(l) ==
    /\ Occurrences(l) > 0
    /\ \A i \in 1..Len(RowLabels) :
          RowLabels[i] # l => Occurrences(RowLabels[i]) < Occurrences(l)

ModeOfStrictPlurality ==
    \A i \in 1..Len(RowLabels) :
        StrictPlurality(RowLabels[i])
            => fc_stats.most_common_weather = RowLabels[i]

\* C8, as stated: over N >= 1 records of one temperature V the mean, the
\* minimum and the maximum are V and the range is 0; a label of a strict
\* plurality is the mode.
C8_Original ==
    HaveStats =>
        /\ AllTempsEqual
              => /\ fc_stats.avg_temp = RowTemps[1]
                 /\ fc_stats.min_temp = RowTemps[1]
                 /\ fc_stats.max_temp = RowTemps[1]
                 /\ fc_stats.temp_range = 0
        /\ ModeOfStrictPlurality

\* C8, amended: over N >= 1 records of one temperature V the minimum and
\* the maximum are V and the range is 0; the mean is V when every multiple
\* k*V, k <= N, is a float (the sum is then exact), and otherwise differs
\* from V by no more than the rounding of the sum: |mean - V| <= N * |V| *
\* 2^(1 - Precision); a label of a strict plurality is the mode.
C8_IdenticalRecords ==
    HaveStats =>
        /\ AllTempsEqual
              => /\ fc_stats.min_temp = RowTemps[1]
                 /\ fc_stats.max_temp = RowTemps[1]
                 /\ fc_stats.temp_range = 0
                 /\ (\A k \in 1..Len(RowTemps) : Representable(k * RowTemps[1]))
                        => fc_stats.avg_temp = RowTemps[1]
                 /\ Abs(fc_stats.avg_temp - RowTemps[1]) * Pow2(Precision)
                        <= 2 * Len(RowTemps) * Abs(RowTemps[1])
        /\ ModeOfStrictPlurality

\* three records of one temperature whose sum is exact, and a strict
\* plurality of "Foggy"
C8_Witness ==
    /\ HaveStats
    /\ Len(RowTemps) = 3
    /\ AllTempsEqual
    /\ Representable(3 * RowTemps[1])
    /\ fc_stats.avg_temp = RowTemps[1]
    /\ fc_stats.temp_range = 0
    /\ RowLabels = <<"Foggy", "Clear sky", "Foggy">>
    /\ fc_stats.most_common_weather = "Foggy"

(***************************************************************************)
(* Specification SpecCtx: process_weather_for_llm on a fetched response    *)
(***************************************************************************)
MaxEighths == 10

\* forecast_days of the Insights request
InsightsForecastDays == 7

\* multiples of 0.125 between -MaxEighths/8 and MaxEighths/8, in thousandths
NumVals == {125 * k : k \in (-MaxEighths)..MaxEighths}

ContextCodes == {0, 53, 99, 9999}

ContextCities == {"Atlanta", "Paris"}

\* first days of a response: before a leap day, before a new year, before
\* the end of a common February
StartDates ==
    { [year |-> 2024, month |-> 2,  day |-> 26],
      [year |-> 2023, month |-> 12, day |-> 29],
      [year |-> 2025, month |-> 2,  day |-> 26] }

NextDay(d) ==
    IF d.day < DaysInMonth(d.year, d.month)
    THEN [d EXCEPT !.day = d.day + 1]
    ELSE IF d.month < 12
    THEN [year |-> d.year, month |-> d.month + 1, day |-> 1]
    ELSE [year |-> d.year + 1, month |-> 1, day |-> 1]

RECURSIVE DateAfter(_, _)
DateAfter(d, k) == IF k = 0 THEN d ELSE NextDay(DateAfter(d, k - 1))

\* the response to the Insights request: the current object and nd days
InsightsResponse(t, code, nd, start) ==
    [latitude  |-> 337490,
     longitude |-> -843880,
     timezone  |-> "America/New_York",
     current |->
        [temperature_2m       |-> t,
         apparent_temperature |-> t - 375,
         relative_humidity_2m |-> 55000,
         wind_speed_10m       |-> Abs(t) + 125,
         weather_code         |-> code],
     daily |->
        [time               |-> [i \in 1..nd |-> DateAfter(start, i - 1)],
         weather_code       |-> [i \in 1..nd |-> IF i % 2 = 1 THEN code ELSE 63],
         temperature_2m_max |-> [i \in 1..nd |-> t + 125 * i],
         temperature_2m_min |-> [i \in 1..nd |-> t - 125 * i],
         precipitation_sum  |-> [i \in 1..nd |-> 125 * (i % 4)],
         wind_speed_10m_max |-> [i \in 1..nd |-> 250 * i + 125]]]

CtxInit ==
    /\ ctx_weather \in
          { InsightsResponse(x[1], x[2], x[3], x[4]) :
              x \in NumVals \X ContextCodes \X (0..InsightsForecastDays)
                      \X StartDates }
    /\ ctx_city \in ContextCities
    /\ ctx_out = Unset
    /\ ctx_report = Unset

\* lines 247, 331: process_weather_for_llm(weather, city)
BuildContext ==
    /\ ctx_out = Unset
    /\ ctx_out' = process_weather_for_llm(ctx_weather, ctx_city)
    /\ UNCHANGED <<ctx_weather, ctx_city, ctx_report, nonCtxVars>>

RECURSIVE SumSeq(_)
SumSeq(xs) == IF xs = <<>> THEN 0 ELSE Head(xs) + SumSeq(Tail(xs))

\* Generate Weather Report, lines 414-447, for a fetched (truthy) response:
\* the context, then the Key Data metrics; Avg High is kept as the sum and
\* the count it is the quotient of
ReportHandler(weather, report_city) ==
    LET weather_context == process_weather_for_llm(weather, report_city)
        temps == [i \in 1..Len(weather_context.forecast) |->
                     weather_context.forecast[i].temp_max]
    IN  IF Len(temps) = 0
        THEN Raise("ZeroDivisionError")
        ELSE [kind      |-> "rendered",
              current   |-> weather_context.current.temperature,
              avg_high  |-> [sum |-> SumSeq(temps), count |-> Len(temps)],
              condition |-> weather_context.forecast[1].condition]

\* lines 408-449: the Generate Weather Report button
GenerateWeatherReport ==
    /\ HasGeminiKey(gemini_key)
    /\ ctx_report = Unset
    /\ ctx_report' = ReportHandler(ctx_weather, ctx_city)
    /\ UNCHANGED <<ctx_weather, ctx_city, ctx_out, nonCtxVars>>

CtxNext == BuildContext \/ GenerateWeatherReport

CtxSpecInit ==
    CtxInit /\ GeoIdle /\ DescIdle /\ ShapeIdle /\ DashIdle
    /\ ChatIdle /\ TextIdle /\ SessIdle

SpecCtx == CtxSpecInit /\ [][CtxNext]_vars

(***************************************************************************)
(* LLM context claims                                                      *)
(***************************************************************************)
Built == DOMAIN ctx_out # {"kind"}

DailyNumberFields ==
    {"temperature_2m_max", "temperature_2m_min", "precipitation_sum",
     "wind_speed_10m_max", "weather_code"}

\* every number, every text and every date the response holds
SourceNumbers ==
    {ctx_weather.latitude, ctx_weather.longitude}
    \cup {ctx_weather.current[k] : k \in DOMAIN ctx_weather.current}
    \cup UNION { {ctx_weather.daily[k][i] : i \in 1..Len(ctx_weather.daily[k])} :
                   k \in DailyNumberFields }

SourceTexts == {ctx_weather.timezone}

SourceDates ==
    {ctx_weather.daily.time[i] : i \in 1..Len(ctx_weather.daily.time)}

\* r is v rounded to one decimal: a whole tenth, nearest to v, the even
\* tenth of two equally near
IsRoundedOf(r, v) ==
    /\ r % 100 = 0
    /\ Abs(r - v) <= 50
    /\ Abs(r - v) = 50 => (r \div 100) % 2 = 0

AppearsRounded(r) == \E v \in SourceNumbers : IsRoundedOf(r, v)

\* C9, as stated: every field of the context, city, condition and date
\* included, appears (a number possibly rounded) in the source response.
C9_Original ==
    Built =>
        /\ ctx_out.city \in SourceTexts
        /\ ctx_out.current.condition \in SourceTexts
        /\ AppearsRounded(ctx_out.current.temperature)
        /\ AppearsRounded(ctx_out.current.feels_like)
        /\ ctx_out.current.humidity \in SourceNumbers
        /\ AppearsRounded(ctx_out.current.wind_speed)
        /\ \A i \in 1..Len(ctx_out.forecast) :
              LET f == ctx_out.forecast[i]
              IN  /\ \E d \in SourceDates :
                        DOMAIN f.date = DOMAIN d /\ f.date = d
                  /\ f.condition \in SourceTexts
                  /\ AppearsRounded(f.temp_max)
                  /\ AppearsRounded(f.temp_min)
                  /\ AppearsRounded(f.precipitation)
                  /\ AppearsRounded(f.wind_max)

\* C9, amended: every number of the context is the like-named number of
\* the response rounded to one decimal (humidity: unrounded); city is the
\* caller's city name, condition the Insights label of the response's
\* weather code, and date the weekday, month name and day of the month of
\* the response's daily time entry.
C9_ContextProjectsResponse ==
    Built =>
        LET c == ctx_weather.current
            d == ctx_weather.daily
        IN  /\ ctx_out.city = ctx_city
            /\ IsRoundedOf(ctx_out.current.temperature, c.temperature_2m)
            /\ IsRoundedOf(ctx_out.current.feels_like, c.apparent_temperature)
            /\ ctx_out.current.humidity = c.relative_humidity_2m
            /\ IsRoundedOf(ctx_out.current.wind_speed, c.wind_speed_10m)
            /\ c.weather_code = 53 => ctx_out.current.condition = "Drizzle"
            /\ c.weather_code = 9999 => ctx_out.current.condition = "Unknown"
            /\ ctx_out.current.condition = insights_description(c.weather_code)
            /\ Len(ctx_out.forecast) <= Len(d.time)
            /\ \A i \in 1..Len(ctx_out.forecast) :
                  LET f == ctx_out.forecast[i]
                  IN  /\ f.date.day = d.time[i].day
                      /\ f.date.month = MonthNames[d.time[i].month]
                      /\ d.time[i] = [year |-> 2024, month |-> 2, day |-> 29]
                            => f.date.weekday = "Thursday"
                      /\ d.time[i] = [year |-> 2024, month |-> 1, day |-> 1]
                            => f.date.weekday = "Monday"
                      /\ d.time[i] = [year |-> 2025, month |-> 3, day |-> 1]
                            => f.date.weekday = "Saturday"
                      /\ IsRoundedOf(f.temp_max, d.temperature_2m_max[i])
                      /\ IsRoundedOf(f.temp_min, d.temperature_2m_min[i])
                      /\ IsRoundedOf(f.precipitation, d.precipitation_sum[i])
                      /\ IsRoundedOf(f.wind_max, d.wind_speed_10m_max[i])
                      /\ f.condition = insights_description(d.weather_code[i])

\* 0.25 degrees became 0.2, 0.625 of wind 0.6, and the fourth day of a
\* response that starts on 2024-02-26 became Thursday, February 29
C9_Witness ==
    /\ Built
    /\ ctx_city = "Paris"
    /\ ctx_out.city = "Paris"
    /\ ctx_weather.current.temperature_2m = 250
    /\ ctx_out.current.temperature = 200
    /\ ctx_out.current.feels_like = -100
    /\ ctx_out.current.wind_speed = 400
    /\ Len(ctx_out.forecast) = 5
    /\ ctx_out.forecast[4].date =
          [weekday |-> "Thursday", month |-> "February", day |-> 29]

(***************************************************************************)
(* Text functions of the LLM adapter and of the chatbot.  A text is a      *)
(* sequence of characters; "U+0130" is the one character (capital I with   *)
(* dot above) whose lower case is two characters.                          *)
(***************************************************************************)
RECURSIVE Flatten(_)
Flatten(ss) == IF ss = <<>> THEN <<>> ELSE Head(ss) \o Flatten(Tail(ss))

\* str.lower() of one character: Lower is its restriction to the
\* characters whose lower case is one character
LowerOf(c) == IF c = "U+0130" THEN <<"i", "U+0307">> ELSE <<LowerChar(c)>>

StrLower(s) == Flatten([i \in 1..Len(s) |-> LowerOf(s[i])])

\* sub in s
Contains(sub, s) ==
    \E i \in 0..(Len(s) - Len(sub)) : SubSeq(s, i + 1, i + Len(sub)) = sub

\* s.find(sub), for a sub that s contains
Find(sub, s) ==
    CHOOSE i \in 0..(Len(s) - Len(sub)) :
        /\ SubSeq(s, i + 1, i + Len(sub)) = sub
        /\ \A j \in 0..(i - 1) : SubSeq(s, j + 1, j + Len(sub)) # sub

\* s.split(c)[0]
BeforeFirst(s, c) ==
    IF \E i \in 1..Len(s) : s[i] = c
    THEN SubSeq(s, 1, (CHOOSE i \in 1..Len(s) :
                          s[i] = c /\ \A j \in 1..(i - 1) : s[j] # c) - 1)
    ELSE s

\* s[start_idx:], start_idx counted from 0
SliceFrom(s, start_idx) ==
    IF start_idx >= Len(s) THEN <<>> ELSE SubSeq(s, start_idx + 1, Len(s))

patterns ==
    << <<"w","e","a","t","h","e","r"," ","i","n"," ">>,
       <<"w","e","a","t","h","e","r"," ","f","o","r"," ">>,
       <<"f","o","r","e","c","a","s","t"," ","f","o","r"," ">>,
       <<"f","o","r","e","c","a","s","t"," ","i","n"," ">>,
       <<"t","e","m","p","e","r","a","t","u","r","e"," ","i","n"," ">>,
       <<"h","o","w","'","s"," ","t","h","e"," ","w","e","a","t","h","e","r"," ","i","n"," ">>,
       <<"w","h","a","t","'","s"," ","t","h","e"," ","w","e","a","t","h","e","r"," ","l","i","k","e"," ","i","n"," ">> >>

\* lines 172-174, for a pattern that message_lower contains
ExtractCity(message, message_lower, pattern) ==
    LET start_idx == Find(pattern, message_lower) + Len(pattern)
        rest == Strip(SliceFrom(message, start_idx))
    IN  Strip(BeforeFirst(BeforeFirst(BeforeFirst(rest, "?"), ","), "."))

\* a Python str returned where None may be returned instead
Str(chars) == [kind |-> "str", chars |-> chars]

RECURSIVE ExtractLoop(_, _, _)
ExtractLoop(message, message_lower, k) ==
    IF k > Len(patterns) THEN NoneVal
    ELSE IF /\ Contains(patterns[k], message_lower)
            /\ ExtractCity(message, message_lower, patterns[k]) # <<>>
    THEN Str(ExtractCity(message, message_lower, patterns[k]))
    ELSE ExtractLoop(message, message_lower, k + 1)

extract_city_from_message(message) ==
    ExtractLoop(message, StrLower(message), 1)

(***************************************************************************)
(* The LLM adapter: what it returns for each outcome of the Gemini call.   *)
(* An outcome is [kind |-> "text"] (generated content) or                  *)
(* [kind |-> "error", e |-> str(e)]; the warning sign of the returned      *)
(* messages is written as its code points.                                 *)
(***************************************************************************)
K_quota == <<"q","u","o","t","a">>
K_rate == <<"r","a","t","e">>
K_safety == <<"s","a","f","e","t","y">>
K_resource_exhausted == <<"r","e","s","o","u","r","c","e","_","e","x","h","a","u","s","t","e","d">>
K_429 == <<"4","2","9">>
K_blocked == <<"b","l","o","c","k","e","d">>
K_invalid == <<"i","n","v","a","l","i","d">>
K_api_key == <<"a","p","i","_","k","e","y">>

Generated(via) == [kind |-> "generated", via |-> via]

\* the classification that tests "safety" before "quota" and "rate"
insights_error_message_safety_first(e) ==
    LET error_msg == StrLower(e)
    IN  IF Contains(K_safety, error_msg)
        THEN [text |-> "U+26A0 U+FE0F Content filtered. Please rephrase your request."]
        ELSE IF Contains(K_quota, error_msg) \/ Contains(K_rate, error_msg)
        THEN [text |-> "U+26A0 U+FE0F API rate limit reached. Please wait a moment and try again."]
        ELSE [text |-> "U+26A0 U+FE0F Error: {e}", e |-> e]

\* Insights page, lines 147-154
insights_error_message(e) ==
    LET error_msg == StrLower(e)
    IN  IF Contains(K_quota, error_msg) \/ Contains(K_rate, error_msg)
        THEN [text |-> "U+26A0 U+FE0F API rate limit reached. Please wait a moment and try again."]
        ELSE IF Contains(K_safety, error_msg)
        THEN [text |-> "U+26A0 U+FE0F Content filtered. Please rephrase your request."]
        ELSE [text |-> "U+26A0 U+FE0F Error: {e}", e |-> e]

\* generate_ai_insights: configure, GenerativeModel and generate_content
\* are inside one try
generate_ai_insights(outcome) ==
    IF outcome.kind = "text" THEN Generated("model")
    ELSE insights_error_message(outcome.e)

\* Chatbot page, lines 142-154
chatbot_error_message(e) ==
    LET error_str == StrLower(e)
    IN  IF Contains(K_quota, error_str) \/ Contains(K_resource_exhausted, error_str)
        THEN [text |-> "U+26A0 U+FE0F Rate limit reached. Please wait and try again."]
        ELSE IF Contains(K_rate, error_str) \/ Contains(K_429, error_str)
        THEN [text |-> "U+26A0 U+FE0F Too many requests. Please slow down."]
        ELSE IF Contains(K_safety, error_str) \/ Contains(K_blocked, error_str)
        THEN [text |-> "U+26A0 U+FE0F Content filtered. Please rephrase."]
        ELSE IF Contains(K_invalid, error_str) \/ Contains(K_api_key, error_str)
        THEN [text |-> "U+26A0 U+FE0F API configuration issue."]
        ELSE [text |-> "U+26A0 U+FE0F Error: {str(e)} Please try rephrasing!", e |-> e]

\* str(e) of the AttributeError that None.send_message raises
NoHandleError ==
    <<"'","N","o","n","e","T","y","p","e","'"," ","o","b","j","e","c","t"," ","h","a","s"," ","n","o"," ","a","t","t","r","i","b","u","t","e"," ","'","s","e","n","d","_","m","e","s","s","a","g","e","'">>

\* a response that lets the exception of a missing handle out
get_chatbot_response_unguarded(chat, outcome) ==
    IF IsNone(chat) THEN Raise("AttributeError")
    ELSE IF outcome.kind = "text" THEN Generated(chat.id)
    ELSE chatbot_error_message(outcome.e)

\* get_chatbot_response(chat, user_message, weather_data): chat.send_message
\* is inside the try; chat is a handle [id |-> n] or None
get_chatbot_response(chat, outcome) ==
    IF IsNone(chat) THEN chatbot_error_message(NoHandleError)
    ELSE IF outcome.kind = "text" THEN Generated(chat.id)
    ELSE chatbot_error_message(outcome.e)

(***************************************************************************)
(* Weather requests (Open-Meteo).  A reply of the service is one of        *)
(* WeatherReplies; a parsed JSON body is the record [to |-> request], the  *)
(* answer to that request, and the empty JSON object is EmptyDict.         *)
(***************************************************************************)
WeatherUrl == "https://api.open-meteo.com/v1/forecast"

WeatherTimeout == 10

WeatherReplies == {"ok", "empty_object", "timeout", "http_error"}

\* Python truth value of a parsed body or None
Truthy(x) == ~IsNone(x) /\ DOMAIN x # {}

\* requests.get(...), raise_for_status(), response.json()
WeatherCall(request, reply, error_text) ==
    CASE reply = "ok" ->
           [ret |-> [to |-> request], requests |-> <<request>>, msgs |-> <<>>]
      [] reply = "empty_object" ->
           [ret |-> EmptyDict, requests |-> <<request>>, msgs |-> <<>>]
      [] OTHER ->
           [ret |-> NoneVal, requests |-> <<request>>,
            msgs |-> << [kind |-> "error", text |-> error_text,
                         cause |-> reply] >>]

\* the request of fetch_forecast with kmh whatever the temperature unit
fetch_forecast_always_kmh(lat, lon, temperature_unit, days, reply) ==
    WeatherCall(
        [fn |-> "fetch_forecast", url |-> WeatherUrl,
         timeout |-> WeatherTimeout,
         params |-> [latitude |-> lat, longitude |-> lon,
                     hourly |-> "temperature_2m,relative_humidity_2m,apparent_temperature,precipitation_probability,weather_code,cloud_cover,wind_speed_10m",
                     daily |-> "weather_code,temperature_2m_max,temperature_2m_min,precipitation_sum,wind_speed_10m_max",
                     temperature_unit |-> temperature_unit,
                     wind_speed_unit |-> "kmh",
                     timezone |-> "auto",
                     forecast_days |-> days]],
        reply, "Error fetching forecast data")

fetch_current_weather(lat, lon, temperature_unit, reply) ==
    WeatherCall(
        [fn |-> "fetch_current_weather", url |-> WeatherUrl,
         timeout |-> WeatherTimeout,
         params |-> [latitude |-> lat, longitude |-> lon,
                     current |-> "temperature_2m,relative_humidity_2m,apparent_temperature,precipitation,weather_code,cloud_cover,wind_speed_10m,wind_direction_10m",
                     temperature_unit |-> temperature_unit,
                     wind_speed_unit |->
                         IF temperature_unit = "fahrenheit" THEN "mph" ELSE "kmh",
                     timezone |-> "auto"]],
        reply, "Error fetching weather data")

fetch_forecast(lat, lon, temperature_unit, days, reply) ==
    WeatherCall(
        [fn |-> "fetch_forecast", url |-> WeatherUrl,
         timeout |-> WeatherTimeout,
         params |-> [latitude |-> lat, longitude |-> lon,
                     hourly |-> "temperature_2m,relative_humidity_2m,apparent_temperature,precipitation_probability,weather_code,cloud_cover,wind_speed_10m",
                     daily |-> "weather_code,temperature_2m_max,temperature_2m_min,precipitation_sum,wind_speed_10m_max",
                     temperature_unit |-> temperature_unit,
                     wind_speed_unit |->
                         IF temperature_unit = "fahrenheit" THEN "mph" ELSE "kmh",
                     timezone |-> "auto",
                     forecast_days |-> days]],
        reply, "Error fetching forecast data")

\* Insights page; every call site passes lat and lon only
DefaultTempUnit == "celsius"

fetch_weather_data(lat, lon, temp_unit, reply) ==
    WeatherCall(
        [fn |-> "fetch_weather_data", url |-> WeatherUrl,
         timeout |-> WeatherTimeout,
         params |-> [latitude |-> lat, longitude |-> lon,
                     current |-> "temperature_2m,relative_humidity_2m,apparent_temperature,weather_code,wind_speed_10m",
                     daily |-> "weather_code,temperature_2m_max,temperature_2m_min,precipitation_sum,wind_speed_10m_max",
                     temperature_unit |-> temp_unit,
                     wind_speed_unit |->
                         IF temp_unit = "fahrenheit" THEN "mph" ELSE "kmh",
                     timezone |-> "auto",
                     forecast_days |-> InsightsForecastDays]],
        reply, "Error fetching weather")

(***************************************************************************)
(* Specification SpecDash: script runs of the dashboard and of the         *)
(* Insights page's activity planner in one browser session                 *)
(***************************************************************************)
\* lines 285-287
temp_unit == IF temp_unit_display \in CelsiusOptions THEN "celsius" ELSE "fahrenheit"

unit_symbol == IF temp_unit = "celsius" THEN "U+00B0 C" ELSE "U+00B0 F"

wind_unit == IF temp_unit = "celsius" THEN "km/h" ELSE "mph"

\* cities typed into the text input: a key of the fallback table and a
\* query only the geocoding service resolves
DashCities == {DefaultCity, <<"P","a","r","i","s",","," ","F","r","a","n","c","e">>}

\* slider positions the user picks
SliderValues == {SliderMin, SliderDefault, SliderMax}

\* the geocoding environment of one run: no key configured, or a key and
\* a service that answers
DashGeoEnvs ==
    { [secret |-> "no_secrets_file", reply |-> NoReply] }
    \cup { [secret |-> "set", reply |-> [kind |-> "result", loc |-> l]] :
             l \in {x \in ServiceLocations : x.lat = 488588} }

\* the geocoding service's replies to the Insights page
InsightsGeoReplies ==
    {r \in GeoReplies : r.kind \in {"transport_error", "empty_results", "result"}}

\* the requests one get_coordinates call issued, each marked with whether
\* that call returned coordinates
GeocodeCalls(g) ==
    [i \in 1..Len(g.requests) |->
        [kind |-> "geocode", request |-> g.requests[i],
         resolved |-> ~IsNone(g.ret)]]

\* the outbound calls of one kind, one per request sent
CallsOf(kind, requests) ==
    [i \in 1..Len(requests) |-> [kind |-> kind, request |-> requests[i]]]

\* a handler that stores whatever the two fetches returned
FetchHandler_unconditional(g, reply_current, reply_forecast) ==
    LET coords == g.ret
    IN  IF IsNone(coords)
        THEN [store |-> session_state, requests |-> <<>>,
              msgs |-> g.msgs \o << [kind |-> "error", text |-> "City not found"] >>]
        ELSE LET c == fetch_current_weather(coords.lat, coords.lon, temp_unit,
                                            reply_current)
                 f == fetch_forecast(coords.lat, coords.lon, temp_unit,
                                     forecast_days, reply_forecast)
             IN  [store |-> [current_weather |-> c.ret,
                             forecast_data   |-> f.ret,
                             location        |-> coords.name,
                             city_name       |-> city_input,
                             unit_symbol     |-> unit_symbol,
                             wind_unit       |-> wind_unit,
                             forecast_days   |-> forecast_days],
                  requests |-> c.requests \o f.requests,
                  msgs |-> g.msgs \o c.msgs \o f.msgs]

\* a handler that stores each value as soon as it is known
FetchHandler_piecewise(g, reply_current, reply_forecast) ==
    LET coords == g.ret
    IN  IF IsNone(coords)
        THEN [store |-> session_state, requests |-> <<>>,
              msgs |-> g.msgs \o << [kind |-> "error", text |-> "City not found"] >>]
        ELSE LET c == fetch_current_weather(coords.lat, coords.lon, temp_unit,
                                            reply_current)
                 f == fetch_forecast(coords.lat, coords.lon, temp_unit,
                                     forecast_days, reply_forecast)
                 new == [current_weather |-> c.ret,
                         forecast_data   |-> f.ret,
                         location        |-> coords.name,
                         city_name       |-> city_input,
                         unit_symbol     |-> unit_symbol,
                         wind_unit       |-> wind_unit,
                         forecast_days   |-> forecast_days]
                 old == session_state
             IN  IF Truthy(c.ret) /\ Truthy(f.ret)
                 THEN [store |-> new,
                       requests |-> c.requests \o f.requests,
                       msgs |-> g.msgs \o c.msgs \o f.msgs
                                \o << [kind |-> "success"] >>]
                 ELSE [store |-> [k \in DOMAIN old \cup {"unit_symbol", "wind_unit"}
                                    |-> IF k \in {"unit_symbol", "wind_unit"}
                                        THEN new[k] ELSE old[k]],
                       requests |-> c.requests \o f.requests,
                       msgs |-> g.msgs \o c.msgs \o f.msgs]

\* the fetch button handler, lines 299-326, after its get_coordinates
\* call returned g
FetchHandler(g, reply_current, reply_forecast) ==
    LET coords == g.ret
    IN  IF IsNone(coords)
        THEN [store |-> session_state, requests |-> <<>>,
              msgs |-> g.msgs \o << [kind |-> "error", text |-> "City not found"] >>]
        ELSE LET c == fetch_current_weather(coords.lat, coords.lon, temp_unit,
                                            reply_current)
                 f == fetch_forecast(coords.lat, coords.lon, temp_unit,
                                     forecast_days, reply_forecast)
                 new == [current_weather |-> c.ret,
                         forecast_data   |-> f.ret,
                         location        |-> coords.name,
                         city_name       |-> city_input,
                         unit_symbol     |-> unit_symbol,
                         wind_unit       |-> wind_unit,
                         forecast_days   |-> forecast_days]
             IN  IF Truthy(c.ret) /\ Truthy(f.ret)
                 THEN [store |-> new,
                       requests |-> c.requests \o f.requests,
                       msgs |-> g.msgs \o c.msgs \o f.msgs
                                \o << [kind |-> "success"] >>]
                 ELSE [store |-> session_state,
                       requests |-> c.requests \o f.requests,
                       msgs |-> g.msgs \o c.msgs \o f.msgs]

\* lines 332-338, 379: the wind label of the results section, when shown
Displayed(store) ==
    IF {"current_weather", "forecast_data"} \subseteq DOMAIN store
    THEN << [kind |-> "metric", label |-> "Wind Speed",
             unit |-> store["wind_unit"]] >>
    ELSE <<>>

DashInit == DashIdle

\* a widget changes: the script reruns with the button not pressed
EditCity ==
    /\ \E c \in DashCities : c # city_input /\ city_input' = c
    /\ wx_page' = "dashboard"
    /\ wx_action' = [handler |-> "city_input"]
    /\ wx_requests' = <<>>
    /\ wx_msgs' = Displayed(session_state)
    /\ wx_calls' = <<>>
    /\ UNCHANGED <<temp_unit_display, forecast_days, session_state, nonDashVars>>

SelectUnit ==
    /\ \E i \in DOMAIN UnitOptions :
          UnitOptions[i] # temp_unit_display /\ temp_unit_display' = UnitOptions[i]
    /\ wx_page' = "dashboard"
    /\ wx_action' = [handler |-> "temp_unit_display"]
    /\ wx_requests' = <<>>
    /\ wx_msgs' = Displayed(session_state)
    /\ wx_calls' = <<>>
    /\ UNCHANGED <<city_input, forecast_days, session_state, nonDashVars>>

SlideDays ==
    /\ \E d \in SliderValues : d # forecast_days /\ forecast_days' = d
    /\ wx_page' = "dashboard"
    /\ wx_action' = [handler |-> "forecast_days"]
    /\ wx_requests' = <<>>
    /\ wx_msgs' = Displayed(session_state)
    /\ wx_calls' = <<>>
    /\ UNCHANGED <<city_input, temp_unit_display, session_state, nonDashVars>>

\* the Fetch Weather Data button
ClickFetch ==
    /\ \E genv \in DashGeoEnvs :
          LET g == get_coordinates(city_input, genv.secret, genv.reply)
          IN  \E r1 \in WeatherReplies, r2 \in WeatherReplies :
                 LET h == FetchHandler(g, r1, r2)
                 IN  /\ session_state' = h.store
                     /\ wx_requests' = h.requests
                     /\ wx_msgs' = h.msgs \o Displayed(h.store)
                     /\ wx_calls' = GeocodeCalls(g)
                                    \o CallsOf("weather", h.requests)
    /\ wx_page' = "dashboard"
    /\ wx_action' = [handler |-> "fetch"]
    /\ UNCHANGED <<city_input, temp_unit_display, forecast_days, nonDashVars>>

\* outcomes of model.generate_content
InsightsLlmOutcomes ==
    { [kind |-> "text"],
      [kind |-> "error", e |-> <<"4","2","9"," ","Q","u","o","t","a">>] }

\* Insights page, lines 324-363: the Generate Activity Plan button
GenerateActivityPlan ==
    /\ HasGeminiKey(gemini_key)
    /\ \E city \in ContextCities, greply \in InsightsGeoReplies,
          reply \in WeatherReplies, outcome \in InsightsLlmOutcomes :
          LET g == get_coordinates_insights(city, greply)
              w == fetch_weather_data(g.ret.lat, g.ret.lon, DefaultTempUnit,
                                      reply)
          IN  IF IsNone(g.ret)
              THEN /\ wx_requests' = <<>>
                   /\ wx_msgs' = g.msgs
                   /\ wx_calls' = GeocodeCalls(g)
              ELSE /\ wx_requests' = w.requests
                   /\ wx_msgs' =
                        IF Truthy(w.ret)
                        THEN << [kind |-> "metric", label |-> "Wind",
                                 unit |-> "km/h"] >>
                        ELSE w.msgs
                   /\ wx_calls' =
                        GeocodeCalls(g)
                        \o CallsOf("weather", w.requests)
                        \o (IF Truthy(w.ret)
                            THEN << [kind |-> "llm",
                                     returned |-> generate_ai_insights(outcome)] >>
                            ELSE <<>>)
    /\ wx_page' = "insights"
    /\ wx_action' = [handler |-> "activity"]
    /\ UNCHANGED <<city_input, temp_unit_display, forecast_days,
                   session_state, nonDashVars>>

\* lines 198-210: the cities of the comparison's text area, one per line
CityLists ==
    { <<"Atlanta">>, <<"Atlanta", "Paris">>, <<"Atlanta", "Atlanta">>,
      <<"Atlanta", "Paris", "Tokyo">>,
      <<"Atlanta", "Paris", "Tokyo", "Rome", "Oslo">> }

\* line 209: the most cities a comparison keeps
MaxComparedCities == 4

\* a comparison that keeps every entered city
Truncated_none(cities) == cities

\* lines 207-209: cities = cities[:4]
Truncated(cities) ==
    IF Len(cities) > MaxComparedCities
    THEN SubSeq(cities, 1, MaxComparedCities) ELSE cities

\* the geocoder fails, or places the city in Atlanta
ComparisonGeoReplies ==
    {r \in InsightsGeoReplies :
        \/ r.kind = "transport_error"
        \/ r.kind = "result" /\ r.loc.lat = 337489}

ComparisonWeatherReplies == {"ok", "timeout"}

\* lines 241-247: the loop over the cities, city k onwards; greplies[k] and
\* wreplies[k] are the services' replies for city k
RECURSIVE CompareLoop(_, _, _, _)
CompareLoop(cities, greplies, wreplies, k) ==
    IF k > Len(cities)
    THEN [data |-> {}, requests |-> <<>>, msgs |-> <<>>, calls |-> <<>>]
    ELSE LET g == get_coordinates_insights(cities[k], greplies[k])
             w == fetch_weather_data(g.ret.lat, g.ret.lon, DefaultTempUnit,
                                     wreplies[k])
             rest == CompareLoop(cities, greplies, wreplies, k + 1)
         IN  IF IsNone(g.ret)
             THEN [data |-> rest.data,
                   requests |-> rest.requests,
                   msgs |-> g.msgs \o rest.msgs,
                   calls |-> GeocodeCalls(g) \o rest.calls]
             ELSE [data |-> (IF Truthy(w.ret) THEN {cities[k]} ELSE {})
                              \cup rest.data,
                   requests |-> w.requests \o rest.requests,
                   msgs |-> w.msgs \o rest.msgs,
                   calls |-> GeocodeCalls(g)
                             \o CallsOf("weather", w.requests) \o rest.calls]

\* Insights page, lines 164-167: without a key the script stops before the
\* analysis-type radio and every button
InsightsStopped ==
    /\ ~HasGeminiKey(gemini_key)
    /\ wx_page' = "insights"
    /\ wx_action' = [handler |-> "stopped"]
    /\ wx_requests' = <<>>
    /\ wx_calls' = <<>>
    /\ wx_msgs' = IF IsNone(gemini_key)
                  THEN << [kind |-> "error", text |-> "Gemini API key not found"] >>
                  ELSE <<>>
    /\ UNCHANGED <<city_input, temp_unit_display, forecast_days,
                   session_state, nonDashVars>>

\* Insights page, lines 236-284: Generate Comparison & Travel Advice
GenerateComparison ==
    /\ HasGeminiKey(gemini_key)
    /\ \E typed \in CityLists, outcome \in InsightsLlmOutcomes :
          LET cities == Truncated(typed)
              warned == IF Len(typed) < 2
                        THEN << [kind |-> "warning", text |-> "Enter at least 2 cities"] >>
                        ELSE IF Len(typed) > MaxComparedCities
                        THEN << [kind |-> "warning", text |-> "Max 4 cities"] >>
                        ELSE <<>>
          IN
          \E greplies \in [1..Len(cities) -> ComparisonGeoReplies],
             wreplies \in [1..Len(cities) -> ComparisonWeatherReplies] :
             LET c == CompareLoop(cities, greplies, wreplies, 1)
             IN  /\ wx_action' = [handler |-> "comparison", typed |-> typed]
                 /\ IF Len(cities) < 2
                    THEN /\ wx_requests' = <<>>
                         /\ wx_msgs' = warned
                         /\ wx_calls' = <<>>
                    ELSE /\ wx_requests' = c.requests
                         /\ wx_msgs' =
                              IF Cardinality(c.data) >= 2 THEN warned \o c.msgs
                              ELSE warned \o c.msgs \o
                                   << [kind |-> "error",
                                       text |-> "Couldn't fetch data for enough cities"] >>
                         /\ wx_calls' =
                              c.calls \o
                              (IF Cardinality(c.data) >= 2
                               THEN << [kind |-> "llm", cities |-> c.data,
                                        returned |-> generate_ai_insights(outcome)] >>
                               ELSE <<>>)
    /\ wx_page' = "insights"
    /\ UNCHANGED <<city_input, temp_unit_display, forecast_days,
                   session_state, nonDashVars>>

DashNext ==
    \/ EditCity
    \/ SelectUnit
    \/ SlideDays
    \/ ClickFetch
    \/ GenerateActivityPlan

DashSpecInit ==
    DashInit /\ GeoIdle /\ DescIdle /\ ShapeIdle /\ CtxIdle
    /\ ChatIdle /\ TextIdle /\ SessIdle

SpecDash == DashSpecInit /\ [][DashNext]_vars

(***************************************************************************)
(* Unit pairing claims                                                     *)
(***************************************************************************)
LabelOf(wind_speed_unit) == IF wind_speed_unit = "mph" THEN "mph" ELSE "km/h"

Paired(request) ==
    /\ request.params.temperature_unit \in {"celsius", "fahrenheit"}
    /\ request.params.wind_speed_unit \in {"kmh", "mph"}
    /\ request.params.wind_speed_unit = "mph"
          <=> request.params.temperature_unit = "fahrenheit"

WindLabels ==
    {wx_msgs[i].unit : i \in {j \in 1..Len(wx_msgs) : wx_msgs[j].kind = "metric"}}

\* C10: every weather request of the dashboard's two fetches and of the
\* Insights fetch asks for mph exactly when it asks for fahrenheit and for
\* kmh otherwise, and the wind label stored (and shown) with fetched data is
\* the label of the unit its requests asked for.
C10_WindUnitPairsWithTemperatureUnit ==
    /\ \A i \in 1..Len(wx_requests) : Paired(wx_requests[i])
    /\ "wind_unit" \in DOMAIN session_state =>
          /\ session_state["wind_unit"] =
                LabelOf(session_state["current_weather"].to.params.wind_speed_unit)
          /\ session_state["wind_unit"] =
                LabelOf(session_state["forecast_data"].to.params.wind_speed_unit)
    /\ wx_page = "dashboard" =>
          \A l \in WindLabels : l = session_state["wind_unit"]
    /\ wx_page = "insights" =>
          \A l \in WindLabels :
             \A i \in 1..Len(wx_requests) :
                l = LabelOf(wx_requests[i].params.wind_speed_unit)

\* data fetched in fahrenheit is stored with the mph label, and stays so
\* after the select box went back to Celsius without a new fetch
C10_Witness ==
    /\ wx_page = "dashboard"
    /\ "wind_unit" \in DOMAIN session_state
    /\ session_state["wind_unit"] = "mph"
    /\ session_state["forecast_data"].to.params.temperature_unit = "fahrenheit"
    /\ session_state["forecast_data"].to.params.wind_speed_unit = "mph"
    /\ temp_unit = "celsius"
    /\ wx_requests = <<>>
    /\ WindLabels = {"mph"}

(***************************************************************************)
(* Chatbot page: weather for a city named in a message                     *)
(***************************************************************************)
ChatForecastDays == 3

\* a context that never embeds the weather data
chatbot_context_plain(user_message, weather_data) ==
    [kind |-> "plain", user_message |-> user_message]

\* get_chatbot_response lines 127-137: what is sent to the LLM, the user's
\* message alone or after the weather data
chatbot_context(user_message, weather_data) ==
    IF Truthy(weather_data)
    THEN [kind |-> "with_weather", weather_data |-> weather_data,
          user_message |-> user_message]
    ELSE [kind |-> "plain", user_message |-> user_message]

\* a fetch that asks the weather service whatever the geocoder returned
fetch_weather_for_chatbot_unguarded(city, greply, wreply) ==
    LET g == get_coordinates_chatbot(city, greply)
        coords == IF IsNone(g.ret) THEN [lat |-> 0, lon |-> 0] ELSE g.ret
        request ==
            [fn |-> "fetch_weather_for_chatbot", url |-> WeatherUrl,
             timeout |-> WeatherTimeout,
             params |-> [latitude |-> coords.lat, longitude |-> coords.lon,
                         current |-> "temperature_2m,relative_humidity_2m,apparent_temperature,weather_code,wind_speed_10m",
                         hourly |-> "temperature_2m,weather_code",
                         temperature_unit |-> "celsius",
                         forecast_days |-> ChatForecastDays]]
    IN  [ret |-> IF wreply = "ok"
                 THEN [city |-> city, to |-> request]
                 ELSE NoneVal,
         calls |-> GeocodeCalls(g) \o << [kind |-> "weather", request |-> request] >>]

\* fetch_weather_for_chatbot(city): the geocoder's reply and the weather
\* service's reply are the environment; every exception ends in None
fetch_weather_for_chatbot(city, greply, wreply) ==
    LET g == get_coordinates_chatbot(city, greply)
        coords == g.ret
        request ==
            [fn |-> "fetch_weather_for_chatbot", url |-> WeatherUrl,
             timeout |-> WeatherTimeout,
             params |-> [latitude |-> coords.lat, longitude |-> coords.lon,
                         current |-> "temperature_2m,relative_humidity_2m,apparent_temperature,weather_code,wind_speed_10m",
                         hourly |-> "temperature_2m,weather_code",
                         temperature_unit |-> "celsius",
                         forecast_days |-> ChatForecastDays]]
        geocodes == GeocodeCalls(g)
    IN  IF IsNone(coords)
        THEN [ret |-> NoneVal, calls |-> geocodes]
        ELSE [ret |-> IF wreply = "ok"
                      THEN [city |-> city, to |-> request]
                      ELSE NoneVal,
              calls |-> geocodes \o << [kind |-> "weather", request |-> request] >>]

(***************************************************************************)
(* Specification SpecChat: script runs of the chatbot page in one browser  *)
(* session.  A chat handle is [id |-> n], the n-th handle created.         *)
(***************************************************************************)
MaxTurns == 5

MaxHandles == 3

Welcome == [role |-> "assistant", content |-> [text |-> "welcome"]]

TypedPrompts ==
    { <<"W","h","a","t","'","s"," ","t","h","e"," ","w","e","a","t","h","e","r"," ","i","n"," ","T","o","k","y","o","?">>,
      <<"W","h","a","t"," ","i","s"," ","h","u","m","i","d","i","t","y","?">> }

\* line 312: the quick action's cities the user selects, or the placeholder
QuickSelections == {"Choose city...", "Paris"}

\* line 317: f"What's the current weather in {selected}?"
QuickPrompt(selected) ==
    <<"W","h","a","t","'","s"," ","t","h","e"," ","c","u","r","r","e","n","t"," ","w","e","a","t","h","e","r"," ","i","n"," ">> \o
    (IF selected = "Paris" THEN <<"P","a","r","i","s">> ELSE <<>>) \o <<"?">>

\* lines 329-335: the suggestions the user clicks
Suggestions ==
    { <<"W","e","a","t","h","e","r"," ","i","n"," ","A","t","l","a","n","t","a","?">> }

\* outcomes of chat.send_message
LlmOutcomes ==
    { [kind |-> "text"],
      [kind |-> "error", e |-> <<"4","2","9"," ","Q","u","o","t","a"," ","e","x","c","e","e","d","e","d">>] }

ChatGeoReplies ==
    {r \in GeoReplies : r.kind = "empty_results" \/
                        (r.kind = "result" /\ r.loc.lat = 488588)}

ChatWeatherReplies == {"ok", "timeout"}

InitOutcomes == {"ok", "fail"}

\* an initialisation that starts the transcript over with the welcome
InitStep_restart(msgs, session, initialized, handles, outcome) ==
    IF initialized
    THEN [msgs |-> msgs, session |-> session, initialized |-> TRUE,
          handles |-> handles, notes |-> <<>>]
    ELSE IF outcome = "ok"
    THEN [msgs |-> <<Welcome>>, session |-> [id |-> handles + 1],
          initialized |-> TRUE, handles |-> handles + 1, notes |-> <<>>]
    ELSE [msgs |-> msgs, session |-> session, initialized |-> FALSE,
          handles |-> handles,
          notes |-> << [kind |-> "error", text |-> "Error initializing chatbot"] >>]

\* an initialisation that hands every session the process's first handle
InitStep_shared(msgs, session, initialized, handles, outcome) ==
    IF initialized
    THEN [msgs |-> msgs, session |-> session, initialized |-> TRUE,
          handles |-> handles, notes |-> <<>>]
    ELSE IF outcome = "ok"
    THEN [msgs |-> Append(msgs, Welcome), session |-> [id |-> 1],
          initialized |-> TRUE, handles |-> handles + 1, notes |-> <<>>]
    ELSE [msgs |-> msgs, session |-> session, initialized |-> FALSE,
          handles |-> handles,
          notes |-> << [kind |-> "error", text |-> "Error initializing chatbot"] >>]

\* lines 210-239: one pass over the initialisation block
InitStep(msgs, session, initialized, handles, outcome) ==
    IF initialized
    THEN [msgs |-> msgs, session |-> session, initialized |-> TRUE,
          handles |-> handles, notes |-> <<>>]
    ELSE IF outcome = "ok"
    THEN [msgs |-> Append(msgs, Welcome), session |-> [id |-> handles + 1],
          initialized |-> TRUE, handles |-> handles + 1, notes |-> <<>>]
    ELSE [msgs |-> msgs, session |-> session, initialized |-> FALSE,
          handles |-> handles,
          notes |-> << [kind |-> "error", text |-> "Error initializing chatbot"] >>]

ChatInit ==
    /\ gemini_key \in GeminiKeys
    /\ chat_messages = <<>>
    /\ chat_session = NoneVal
    /\ chatbot_initialized = FALSE
    /\ chat_last = "none"
    /\ chat_calls = <<>>
    /\ chat_notes = <<>>
    /\ chat_handles = 0
    /\ chat_stale = {}

\* lines 204-207: without a key the script stops before the chat
Stopped ==
    /\ ~HasGeminiKey(gemini_key)
    /\ chat_last' = "stopped"
    /\ chat_notes' = IF IsNone(gemini_key)
                     THEN << [kind |-> "error", text |-> "Gemini API key not found"] >>
                     ELSE <<>>
    /\ chat_calls' = <<>>
    /\ UNCHANGED <<gemini_key, chat_messages, chat_session, chatbot_initialized,
                   chat_handles, chat_stale, nonChatVars>>

\* a run no chat widget caused: the page is opened, or a select box changed
Rerun ==
    /\ HasGeminiKey(gemini_key)
    /\ \E o \in InitOutcomes :
          LET a == InitStep(chat_messages, chat_session, chatbot_initialized,
                            chat_handles, o)
          IN  /\ a.handles <= MaxHandles
              /\ Len(a.msgs) <= MaxTurns
              /\ chat_messages' = a.msgs
              /\ chat_session' = a.session
              /\ chatbot_initialized' = a.initialized
              /\ chat_handles' = a.handles
              /\ chat_notes' = a.notes
    /\ chat_last' = "rerun"
    /\ chat_calls' = <<>>
    /\ UNCHANGED <<gemini_key, chat_stale, nonChatVars>>

\* lines 251-292: a message typed into the chat input
Submit ==
    /\ HasGeminiKey(gemini_key)
    /\ \E prompt \in TypedPrompts, o \in InitOutcomes :
          LET a == InitStep(chat_messages, chat_session, chatbot_initialized,
                            chat_handles, o)
              city == extract_city_from_message(prompt)
          IN  /\ a.handles <= MaxHandles
              /\ Len(a.msgs) + 2 <= MaxTurns
              /\ \E greply \in ChatGeoReplies, wreply \in ChatWeatherReplies,
                    outcome \in LlmOutcomes :
                    LET w == IF IsNone(city)
                             THEN [ret |-> NoneVal, calls |-> <<>>]
                             ELSE fetch_weather_for_chatbot(city.chars, greply, wreply)
                        response == get_chatbot_response(a.session, outcome)
                    IN  /\ chat_messages' =
                              a.msgs \o << [role |-> "user", content |-> prompt],
                                           [role |-> "assistant", content |-> response] >>
                        /\ chat_calls' =
                              w.calls \o
                              (IF IsNone(a.session) THEN <<>>
                               ELSE << [kind |-> "llm", via |-> a.session.id,
                                        context |-> chatbot_context(prompt, w.ret)] >>)
                        /\ chat_notes' =
                              a.notes \o
                              (IF IsNone(city) THEN <<>>
                               ELSE IF IsNone(w.ret)
                               THEN << [kind |-> "warning", text |-> "Couldn't fetch weather"] >>
                               ELSE << [kind |-> "success", text |-> "Got weather"] >>)
              /\ chat_session' = a.session
              /\ chatbot_initialized' = a.initialized
              /\ chat_handles' = a.handles
    /\ chat_last' = "submit"
    /\ UNCHANGED <<gemini_key, chat_stale, nonChatVars>>

\* lines 302-305: Clear Chat History, and the run st.rerun() starts
ClearChat ==
    /\ HasGeminiKey(gemini_key)
    /\ \E o1 \in InitOutcomes, o2 \in InitOutcomes :
          LET a == InitStep(chat_messages, chat_session, chatbot_initialized,
                            chat_handles, o1)
              b == InitStep(<<>>, a.session, FALSE, a.handles, o2)
          IN  /\ b.handles <= MaxHandles
              /\ chat_messages' = b.msgs
              /\ chat_session' = b.session
              /\ chatbot_initialized' = b.initialized
              /\ chat_handles' = b.handles
              /\ chat_notes' = b.notes
              /\ chat_stale' = 1..a.handles
    /\ chat_last' = "clear"
    /\ chat_calls' = <<>>
    /\ UNCHANGED <<gemini_key, nonChatVars>>

\* lines 315-322: the quick action's Fetch Weather button
QuickAction ==
    /\ HasGeminiKey(gemini_key)
    /\ \E selected \in QuickSelections, o1 \in InitOutcomes, o2 \in InitOutcomes :
          LET a == InitStep(chat_messages, chat_session, chatbot_initialized,
                            chat_handles, o1)
              b == IF selected # "Choose city..."
                   THEN InitStep(Append(a.msgs, [role |-> "user",
                                                 content |-> QuickPrompt(selected)]),
                                 a.session, a.initialized, a.handles, o2)
                   ELSE a
          IN  /\ b.handles <= MaxHandles
              /\ Len(b.msgs) <= MaxTurns
              /\ chat_messages' = b.msgs
              /\ chat_session' = b.session
              /\ chatbot_initialized' = b.initialized
              /\ chat_handles' = b.handles
              /\ chat_notes' = b.notes
    /\ chat_last' = "quick"
    /\ chat_calls' = <<>>
    /\ UNCHANGED <<gemini_key, chat_stale, nonChatVars>>

\* lines 337-343: a suggestion button
SuggestionClick ==
    /\ HasGeminiKey(gemini_key)
    /\ \E suggestion \in Suggestions, o1 \in InitOutcomes, o2 \in InitOutcomes :
          LET a == InitStep(chat_messages, chat_session, chatbot_initialized,
                            chat_handles, o1)
              b == InitStep(Append(a.msgs, [role |-> "user", content |-> suggestion]),
                            a.session, a.initialized, a.handles, o2)
          IN  /\ b.handles <= MaxHandles
              /\ Len(b.msgs) <= MaxTurns
              /\ chat_messages' = b.msgs
              /\ chat_session' = b.session
              /\ chatbot_initialized' = b.initialized
              /\ chat_handles' = b.handles
              /\ chat_notes' = b.notes
    /\ chat_last' = "suggestion"
    /\ chat_calls' = <<>>
    /\ UNCHANGED <<gemini_key, chat_stale, nonChatVars>>

ChatNext ==
    \/ Stopped
    \/ Rerun
    \/ Submit
    \/ ClearChat
    \/ QuickAction
    \/ SuggestionClick

ChatSpecInit ==
    ChatInit /\ GeoIdle /\ DescIdle /\ ShapeIdle /\ CtxIdle /\ DashIdle
    /\ TextIdle /\ SessIdle

SpecChat == ChatSpecInit /\ [][ChatNext]_vars

(***************************************************************************)
(* Specification SpecPages: one browser session on one page, the           *)
(* dashboard, the Insights page or the chatbot                             *)
(***************************************************************************)
DashboardRun ==
    /\ wx_page \in {"none", "dashboard"}
    /\ chat_last = "none"
    /\ (EditCity \/ SelectUnit \/ SlideDays \/ ClickFetch)

InsightsRun ==
    /\ wx_page \in {"none", "insights"}
    /\ chat_last = "none"
    /\ (InsightsStopped \/ GenerateActivityPlan \/ GenerateComparison)

ChatRun ==
    /\ wx_page = "none"
    /\ ChatNext

PagesNext ==
    \/ DashboardRun
    \/ InsightsRun
    \/ ChatRun

PagesSpecInit ==
    ChatInit /\ DashInit /\ GeoIdle /\ DescIdle /\ ShapeIdle /\ CtxIdle
    /\ TextIdle /\ SessIdle

SpecPages == PagesSpecInit /\ [][PagesNext]_vars

(***************************************************************************)
(* Specification SpecSessions: two browser sessions on the one process.    *)
(* Streamlit runs one script at a time per session, each against that      *)
(* session's own st.session_state; chat handles are objects of the process.*)
(***************************************************************************)
MaxSessTurns == 3

MaxSessHandles == 2

\* messages sent through one handle
MaxSent == 1

\* what each session's user has set the dashboard's widgets to
SessWidgets ==
    [s \in Sessions |->
        IF s = "A"
        THEN [city_input |-> DefaultCity, temp_unit_display |-> UnitOptions[1],
              forecast_days |-> SliderDefault]
        ELSE [city_input |-> DefaultCity, temp_unit_display |-> UnitOptions[2],
              forecast_days |-> SliderMax]]

SessWeatherReplies == {"ok", "timeout"}

\* one message sent through each handle created since
SentAfter(sent, handles) ==
    IF handles > Len(sent) THEN Append(sent, 0) ELSE sent

\* dashboard lines 299-326 in session s
SessFetch(s) ==
    /\ \E r1 \in SessWeatherReplies, r2 \in SessWeatherReplies :
          LET w == SessWidgets[s]
              unit == IF w.temp_unit_display \in CelsiusOptions
                      THEN "celsius" ELSE "fahrenheit"
              g == get_coordinates(w.city_input, "no_secrets_file", NoReply)
              coords == g.ret
              c == fetch_current_weather(coords.lat, coords.lon, unit, r1)
              f == fetch_forecast(coords.lat, coords.lon, unit,
                                  w.forecast_days, r2)
              new == [current_weather |-> c.ret,
                      forecast_data   |-> f.ret,
                      location        |-> coords.name,
                      city_name       |-> w.city_input,
                      unit_symbol     |-> IF unit = "celsius" THEN "U+00B0 C"
                                          ELSE "U+00B0 F",
                      wind_unit       |-> IF unit = "celsius" THEN "km/h"
                                          ELSE "mph",
                      forecast_days   |-> w.forecast_days]
          IN  sess' = [sess EXCEPT ![s].store =
                          IF ~IsNone(coords) /\ Truthy(c.ret) /\ Truthy(f.ret)
                          THEN new ELSE @]
    /\ sess_actor' = s
    /\ UNCHANGED <<sess_sent, nonSessVars>>

\* chatbot lines 184-248 in session s: the page is opened or rerun
SessOpenChat(s) ==
    /\ \E o \in InitOutcomes :
          LET a == InitStep(sess[s].chat_messages, sess[s].chat_session,
                            sess[s].chatbot_initialized, Len(sess_sent), o)
          IN  /\ a.handles <= MaxSessHandles
              /\ Len(a.msgs) <= MaxSessTurns
              /\ sess' = [sess EXCEPT ![s].chat_messages = a.msgs,
                                      ![s].chat_session = a.session,
                                      ![s].chatbot_initialized = a.initialized]
              /\ sess_sent' = SentAfter(sess_sent, a.handles)
    /\ sess_actor' = s
    /\ UNCHANGED nonSessVars

\* chatbot lines 251-292 in session s: a message typed into the chat input
SessSubmit(s) ==
    /\ \E o \in InitOutcomes, outcome \in LlmOutcomes :
          LET a == InitStep(sess[s].chat_messages, sess[s].chat_session,
                            sess[s].chatbot_initialized, Len(sess_sent), o)
              prompt == <<"W","h","a","t"," ","i","s"," ","h","u","m","i","d","i","t","y","?">>
              response == get_chatbot_response(a.session, outcome)
              sent == SentAfter(sess_sent, a.handles)
          IN  /\ a.handles <= MaxSessHandles
              /\ Len(a.msgs) + 2 <= MaxSessTurns
              /\ IF IsNone(a.session) THEN TRUE
                 ELSE sent[a.session.id] < MaxSent
              /\ sess' = [sess EXCEPT
                            ![s].chat_messages =
                                a.msgs \o << [role |-> "user", content |-> prompt],
                                             [role |-> "assistant", content |-> response] >>,
                            ![s].chat_session = a.session,
                            ![s].chatbot_initialized = a.initialized]
              /\ sess_sent' =
                    IF IsNone(a.session) THEN sent
                    ELSE [sent EXCEPT ![a.session.id] = @ + 1]
    /\ sess_actor' = s
    /\ UNCHANGED nonSessVars

\* chatbot lines 302-305 in session s, and the run st.rerun() starts
SessClear(s) ==
    /\ \E o1 \in InitOutcomes, o2 \in InitOutcomes :
          LET a == InitStep(sess[s].chat_messages, sess[s].chat_session,
                            sess[s].chatbot_initialized, Len(sess_sent), o1)
              b == InitStep(<<>>, a.session, FALSE, a.handles, o2)
          IN  /\ b.handles <= MaxSessHandles
              /\ sess' = [sess EXCEPT ![s].chat_messages = b.msgs,
                                      ![s].chat_session = b.session,
                                      ![s].chatbot_initialized = b.initialized]
              /\ sess_sent' = SentAfter(SentAfter(sess_sent, a.handles), b.handles)
    /\ sess_actor' = s
    /\ UNCHANGED nonSessVars

SessNext ==
    \E s \in Sessions :
        \/ SessFetch(s)
        \/ SessOpenChat(s)
        \/ SessSubmit(s)
        \/ SessClear(s)

SessSpecInit ==
    SessIdle /\ GeoIdle /\ DescIdle /\ ShapeIdle /\ CtxIdle /\ DashIdle
    /\ ChatIdle /\ TextIdle

SpecSessions == SessSpecInit /\ [][SessNext]_vars

(***************************************************************************)
(* Weather request claims                                                  *)
(***************************************************************************)
\* the weather requests the last run sent, whatever the page
ChatWeatherRequests ==
    LET idx == {i \in 1..Len(chat_calls) : chat_calls[i].kind = "weather"}
    IN  {chat_calls[i].request : i \in idx}

DashWeatherRequests == {wx_requests[i] : i \in 1..Len(wx_requests)}

\* C11, as stated: every weather request of every page, the chatbot's
\* included, carries timezone=auto.
C11_Original ==
    \A r \in DashWeatherRequests \cup ChatWeatherRequests :
        "timezone" \in DOMAIN r.params /\ r.params.timezone = "auto"

ErrorNotes(msgs) ==
    {msgs[i] : i \in {j \in 1..Len(msgs) : msgs[j].kind \in {"error", "warning"}}}

\* C12, as stated: a weather fetch sends one request and, when it fails,
\* the user sees a message that carries the cause of the failure, on the
\* dashboard and in the chatbot.
C12_Original ==
    /\ Cardinality(ChatWeatherRequests) <= 1
    /\ \A r1, r2 \in DashWeatherRequests :
          wx_page = "dashboard" /\ r1.fn = r2.fn => r1 = r2
    /\ \A n \in ErrorNotes(wx_msgs) :
          n.text \in {"Error fetching weather data", "Error fetching forecast data"}
             => "cause" \in DOMAIN n
    /\ \A n \in ErrorNotes(chat_notes) :
          n.text = "Couldn't fetch weather" => "cause" \in DOMAIN n

(***************************************************************************)
(* Dashboard store claims                                                  *)
(***************************************************************************)
Succeeded == \E i \in 1..Len(wx_msgs) : wx_msgs[i].kind = "success"

FetchFailed == wx_page = "dashboard" /\ ~Succeeded

\* C13: a run of the dashboard script that does not end in a successful
\* fetch (the city is not found, or either weather fetch fails, the other
\* succeeding or not) leaves every stored value as it was, and what the
\* results section shows afterwards is the data stored before the run.
C13_FailedFetchKeepsStore ==
    [][ FetchFailed' =>
          /\ session_state' = session_state
          /\ WindLabels' =
                IF "wind_unit" \in DOMAIN session_state
                THEN {session_state["wind_unit"]} ELSE {} ]_vars

\* with fahrenheit data stored and the select box back on Celsius, the
\* current fetch succeeded and the forecast fetch failed: the fahrenheit
\* data is still stored and shown
C13_Witness ==
    /\ FetchFailed
    /\ Len(wx_requests) = 2
    /\ Cardinality(ErrorNotes(wx_msgs)) = 1
    /\ \E n \in ErrorNotes(wx_msgs) : n.text = "Error fetching forecast data"
    /\ "forecast_data" \in DOMAIN session_state
    /\ temp_unit = "celsius"
    /\ session_state["forecast_data"].to.params.temperature_unit = "fahrenheit"
    /\ WindLabels = {"mph"}

(***************************************************************************)
(* Crash safety claims                                                     *)
(***************************************************************************)
\* C14, as stated: whatever the external calls return, a response with an
\* empty array included, no exception escapes a handler: the Generate
\* Weather Report handler always renders.
C14_Original == ctx_report.kind # "raise"

LlmCalls(calls) == {calls[i] : i \in {j \in 1..Len(calls) : calls[j].kind = "llm"}}

\* what the adapter hands back: generated content, or a message text
IsGenerated(x) == DOMAIN x = {"kind", "via"} /\ x.kind = "generated"

IsMessage(x) == "text" \in DOMAIN x /\ "kind" \notin DOMAIN x

\* C15: generate_ai_insights and get_chatbot_response return generated
\* content or a message text, never an exception; without a chat handle the
\* chatbot's reply is the error message of the missing handle and no LLM
\* call is made; a submitted message always ends the transcript with the
\* user turn followed by the assistant turn holding what was returned.
C15_AdapterNeverRaises ==
    /\ \A c \in LlmCalls(wx_calls) :
          IsGenerated(c.returned) \/ IsMessage(c.returned)
    /\ \A i \in 1..Len(chat_messages) :
          chat_messages[i].role = "assistant" =>
             IsGenerated(chat_messages[i].content) \/ IsMessage(chat_messages[i].content)
    /\ chat_last = "submit" =>
          /\ Len(chat_messages) >= 2
          /\ chat_messages[Len(chat_messages)].role = "assistant"
          /\ chat_messages[Len(chat_messages) - 1].role = "user"
          /\ IsNone(chat_session) =>
                /\ IsMessage(chat_messages[Len(chat_messages)].content)
                /\ chat_messages[Len(chat_messages)].content.e = NoHandleError
                /\ LlmCalls(chat_calls) = {}
          /\ ~IsNone(chat_session) =>
                \A c \in LlmCalls(chat_calls) :
                   IsGenerated(chat_messages[Len(chat_messages)].content)
                      => chat_messages[Len(chat_messages)].content.via = c.via

\* after the welcome, a turn answered by the rate limit message and then a
\* later turn answered by generated content
C15_Witness ==
    /\ chat_last = "submit"
    /\ Len(chat_messages) = 5
    /\ chat_messages[2].role = "user"
    /\ IsMessage(chat_messages[3].content)
    /\ chat_messages[3].content.text =
          "U+26A0 U+FE0F Rate limit reached. Please wait and try again."
    /\ chat_messages[4].role = "user"
    /\ IsGenerated(chat_messages[5].content)

(***************************************************************************)
(* Transcript claims                                                       *)
(***************************************************************************)
\* C17: a script run that is not a clear (a submission, a quick action, a
\* suggestion click, a plain rerun, each with its pass over the
\* initialisation block) leaves the transcript it found as a prefix of the
\* transcript it leaves.
C17_AppendOnlyBetweenClears ==
    [][chat_last' # "clear" => IsPrefix(chat_messages, chat_messages')]_vars

\* a submission was answered before the chatbot initialised, and a later
\* run's initialisation appended the welcome after those turns
C17_Witness ==
    /\ Len(chat_messages) >= 4
    /\ chat_messages[1].role = "user"
    /\ chat_messages[3] = Welcome
    /\ chat_last \in {"quick", "suggestion", "submit"}

\* C18: the run a clear starts finds the transcript empty and passes
\* through the initialisation again, and from then on no response is
\* generated through a chat handle created before the clear, whether or not
\* that initialisation succeeded.
C18_Original ==
    /\ chat_last = "clear" =>
          \/ chat_messages = <<>> /\ ~chatbot_initialized
          \/ chat_messages = <<Welcome>> /\ chatbot_initialized
    /\ \A i \in 1..Len(chat_calls) :
          chat_calls[i].kind = "llm" => chat_calls[i].via \notin chat_stale

(***************************************************************************)
(* Call order claims: wx_calls and chat_calls hold the outbound calls of   *)
(* the last script run, in the order they were made.                       *)
(***************************************************************************)
KindCount(calls, kind) ==
    Cardinality({i \in 1..Len(calls) : calls[i].kind = kind})

NetworkCount(calls) == KindCount(calls, "geocode") + KindCount(calls, "weather")

\* at most one LLM call, and nothing after it
LlmLast(calls) ==
    /\ KindCount(calls, "llm") <= 1
    /\ \A i \in 1..Len(calls) : calls[i].kind = "llm" => i = Len(calls)

\* every weather call directly follows the geocoding call that resolved
\* its city
WeatherFollowsGeocode(calls) ==
    \A i \in 1..Len(calls) :
        calls[i].kind = "weather" =>
            /\ i > 1
            /\ calls[i-1].kind = "geocode"
            /\ calls[i-1].resolved

\* C20, as stated: a script run makes at most two network calls, geocode
\* then weather, the weather call only after a resolved geocode, and then
\* at most one LLM call, last.
C20_Original ==
    \A calls \in {wx_calls, chat_calls} :
        /\ NetworkCount(calls) <= 2
        /\ LlmLast(calls)
        /\ \A i \in 1..Len(calls), j \in 1..Len(calls) :
              calls[i].kind = "weather" /\ calls[j].kind = "geocode" =>
                 j < i /\ calls[j].resolved

\* C20, amended: the calls of a script run are made one after the other.
\* A chat turn makes at most one geocoding call, then at most one weather
\* call, then at most one LLM call.  An Insights run makes, for each city
\* in turn (one city, or up to four in a comparison), one geocoding call
\* and, only when it resolved, one weather call, and after all of them at
\* most one LLM call.  A dashboard fetch makes at most one geocoding call
\* and then, only when coordinates were obtained, the two weather calls
\* (current, then forecast), three network calls at most and no LLM call.
C20_CallsInOrder ==
    /\ LlmLast(chat_calls)
    /\ WeatherFollowsGeocode(chat_calls)
    /\ KindCount(chat_calls, "geocode") <= 1
    /\ KindCount(chat_calls, "weather") <= 1
    /\ LlmLast(wx_calls)
    /\ wx_page = "insights" =>
          /\ WeatherFollowsGeocode(wx_calls)
          /\ KindCount(wx_calls, "geocode") <= MaxComparedCities
          /\ \A i \in 2..Len(wx_calls) :
                ~(wx_calls[i].kind = "geocode" /\ wx_calls[i-1].kind = "geocode"
                  /\ wx_calls[i-1].resolved)
    /\ wx_page = "dashboard" =>
          /\ KindCount(wx_calls, "llm") = 0
          /\ KindCount(wx_calls, "geocode") <= 1
          /\ KindCount(wx_calls, "weather") \in {0, 2}
          /\ \A i \in 1..Len(wx_calls) :
                wx_calls[i].kind = "geocode" => i = 1
          /\ KindCount(wx_calls, "weather") = 2 =>
                /\ wx_calls[Len(wx_calls) - 1].request.fn = "fetch_current_weather"
                /\ wx_calls[Len(wx_calls)].request.fn = "fetch_forecast"
                /\ \A i \in 1..Len(wx_calls) :
                      wx_calls[i].kind = "geocode" => wx_calls[i].resolved

\* a chat turn that geocoded, fetched the weather and then asked the LLM
C20_Witness ==
    /\ chat_last = "submit"
    /\ Len(chat_calls) = 3
    /\ chat_calls[1].kind = "geocode" /\ chat_calls[1].resolved
    /\ chat_calls[2].kind = "weather"
    /\ chat_calls[3].kind = "llm"

(***************************************************************************)
(* LLM key claims                                                          *)
(***************************************************************************)
\* C21: while the LLM key is absent or empty, the Insights page and the
\* chatbot page have made no LLM, geocoding or weather call, no chat handle
\* was created, and the transcript holds no turn (no welcome).
C21_NoKeyNoLlmWork ==
    (IsNone(gemini_key) \/ gemini_key.key = "") =>
        /\ chat_calls = <<>>
        /\ chat_handles = 0
        /\ IsNone(chat_session)
        /\ ~chatbot_initialized
        /\ chat_messages = <<>>
        /\ wx_page = "insights" => wx_calls = <<>> /\ wx_requests = <<>>

\* the chatbot page was opened with an empty key and stopped
C21_Witness ==
    /\ ~IsNone(gemini_key)
    /\ gemini_key.key = ""
    /\ chat_last = "stopped"
    /\ chat_messages = <<>>

(***************************************************************************)
(* Session isolation claims                                                *)
(***************************************************************************)
\* C22: a script run of one session leaves every other session's stored
\* weather data, units and location, transcript and chat handle as they
\* were, and sends nothing through another session's chat handle.
C22_SessionsIsolated ==
    [][\A t \in Sessions :
          t # sess_actor' =>
             /\ sess'[t] = sess[t]
             /\ ~IsNone(sess[t].chat_session) =>
                   sess_sent'[sess[t].chat_session.id]
                      = sess_sent[sess[t].chat_session.id]]_vars

\* both sessions hold weather data in their own units and their own chat
\* handle, and B has just sent a message through its handle
C22_Witness ==
    /\ sess_actor = "B"
    /\ "wind_unit" \in DOMAIN sess["A"].store
    /\ "wind_unit" \in DOMAIN sess["B"].store
    /\ sess["A"].store["wind_unit"] = "km/h"
    /\ sess["B"].store["wind_unit"] = "mph"
    /\ ~IsNone(sess["A"].chat_session)
    /\ ~IsNone(sess["B"].chat_session)
    /\ sess["A"].chat_session # sess["B"].chat_session
    /\ Len(sess["A"].chat_messages) = 3
    /\ Len(sess["B"].chat_messages) = 3
    /\ sess_sent[sess["B"].chat_session.id] = 1

(***************************************************************************)
(* Chat turn claims                                                        *)
(***************************************************************************)
CallsOfKind(calls, kind) ==
    {calls[i] : i \in {j \in 1..Len(calls) : calls[j].kind = kind}}

\* the message the last submission put into the transcript
SubmittedPrompt == chat_messages[Len(chat_messages) - 1].content

GotWeather ==
    \E i \in 1..Len(chat_notes) : chat_notes[i].kind = "success"

\* what a submitted turn does apart from the number of LLM calls
TurnFetchesAndEmbeds ==
    LET city == extract_city_from_message(SubmittedPrompt)
        geocodes == CallsOfKind(chat_calls, "geocode")
        weathers == CallsOfKind(chat_calls, "weather")
    IN  /\ IsNone(city) => geocodes = {} /\ weathers = {} /\ ~GotWeather
        /\ ~IsNone(city) =>
              /\ Cardinality(geocodes) = 1
              /\ \A g \in geocodes : g.request.q = city.chars
              /\ weathers # {} <=> \A g \in geocodes : g.resolved
              /\ GotWeather => weathers # {}
        /\ \A c \in CallsOfKind(chat_calls, "llm") :
              /\ c.context.user_message = SubmittedPrompt
              /\ c.context.kind = "with_weather" <=> GotWeather
              /\ c.context.kind = "with_weather" =>
                    /\ c.context.weather_data.city = city.chars
                    /\ \A w \in weathers :
                          c.context.weather_data.to = w.request
              /\ c.context.kind = "plain" => DOMAIN c.context = {"kind", "user_message"}

\* C23, as stated: a submitted turn calls the LLM exactly once, with the
\* weather snapshot exactly when a city was extracted and its geocoding and
\* weather fetch both succeeded, and with the message alone otherwise; no
\* geocoding or weather call without an extracted city.
C23_Original ==
    chat_last = "submit" =>
        /\ Cardinality(CallsOfKind(chat_calls, "llm")) = 1
        /\ Len(chat_calls) >= 1 /\ chat_calls[Len(chat_calls)].kind = "llm"
        /\ TurnFetchesAndEmbeds

\* C23, amended: a submitted turn calls the LLM exactly once when the
\* session holds a chat handle and not at all when the initialisation has
\* not succeeded (the reply is then the adapter's error message); the rest
\* as stated.
C23_OneCallThroughHandle ==
    chat_last = "submit" =>
        /\ Cardinality(CallsOfKind(chat_calls, "llm")) =
              (IF IsNone(chat_session) THEN 0 ELSE 1)
        /\ ~IsNone(chat_session) =>
              /\ chat_calls[Len(chat_calls)].kind = "llm"
              /\ chat_calls[Len(chat_calls)].via = chat_session.id
        /\ TurnFetchesAndEmbeds

\* "What's the weather in Tokyo?" was geocoded and fetched, and the LLM got
\* the snapshot with the message
C23_Witness ==
    /\ chat_last = "submit"
    /\ Len(chat_calls) = 3
    /\ chat_calls[3].kind = "llm"
    /\ chat_calls[3].context.kind = "with_weather"
    /\ chat_calls[3].context.weather_data.city = <<"T","o","k","y","o">>
    /\ GotWeather

(***************************************************************************)
(* Forecast section claims                                                 *)
(***************************************************************************)
SectionDone == fc_stats.kind # "unset"

TableUsable == df_forecast.kind = "DataFrame" /\ df_forecast.rows # <<>>

\* C24: for every stored forecast the forecast section ends either with
\* the statistics, computed over a table that exists and is not empty, or
\* with the 'unable to process' message, and with the message whenever
\* there is no such table.
C24_Original ==
    SectionDone =>
        /\ fc_stats.kind \in {"stats", "error"}
        /\ fc_stats.kind = "stats" <=> TableUsable

(***************************************************************************)
(* Context size claims                                                     *)
(***************************************************************************)
\* C25: the context holds the current snapshot and exactly
\* min(5, len(daily.time)) daily summaries, never more than 5, the i-th
\* summary built from the i-th daily entry of the response.
C25_AtMostFiveDays ==
    Built =>
        LET d == ctx_weather.daily
            n == Len(ctx_out.forecast)
        IN  /\ DOMAIN ctx_out = {"city", "current", "forecast"}
            /\ DOMAIN ctx_out.current =
                  {"temperature", "feels_like", "humidity", "wind_speed", "condition"}
            /\ n <= 5
            /\ n = (IF Len(d.time) < 5 THEN Len(d.time) ELSE 5)
            /\ \A i \in 1..n :
                  /\ ctx_out.forecast[i].date.day = d.time[i].day
                  /\ ctx_out.forecast[i].date.month = MonthNames[d.time[i].month]
                  /\ IsRoundedOf(ctx_out.forecast[i].temp_max, d.temperature_2m_max[i])
                  /\ IsRoundedOf(ctx_out.forecast[i].wind_max, d.wind_speed_10m_max[i])

\* a response of seven days gave a context of five
C25_Witness ==
    /\ Built
    /\ Len(ctx_weather.daily.time) = 7
    /\ Len(ctx_out.forecast) = 5

(***************************************************************************)
(* City comparison claims                                                  *)
(***************************************************************************)
\* the positions of the calls of one kind, in call order
PositionsOf(calls, kind) == {i \in 1..Len(calls) : calls[i].kind = kind}

\* the cities whose weather was requested: each weather call follows the
\* geocoding call of its city
RequestedCities(calls) ==
    {calls[i - 1].request.q : i \in PositionsOf(calls, "weather")}

ShowsNotEnough ==
    \E i \in 1..Len(wx_msgs) :
        /\ wx_msgs[i].kind = "error"
        /\ wx_msgs[i].text = "Couldn't fetch data for enough cities"

\* C26: a comparison of fewer than 2 entered cities makes no call; one of
\* more than 4 geocodes the first four only, in the order entered; the LLM
\* is called only with the data of 2 to 4 of the kept cities; and when the
\* weather of fewer than 2 different city names was requested, or no LLM
\* call was made for 2 or more entered cities, the error is shown and no
\* LLM call is made.
C26_ComparesTwoToFour ==
    wx_action.handler = "comparison" =>
        LET typed == wx_action.typed
            kept  == IF Len(typed) > 4 THEN SubSeq(typed, 1, 4) ELSE typed
            geo   == PositionsOf(wx_calls, "geocode")
            llm   == PositionsOf(wx_calls, "llm")
        IN  /\ Len(typed) < 2 => wx_calls = <<>> /\ ~ShowsNotEnough
            /\ Len(typed) >= 2 =>
                  /\ Cardinality(geo) = Len(kept)
                  /\ \A i \in geo :
                        wx_calls[i].request.q
                           = kept[Cardinality({j \in geo : j <= i})]
                  /\ ShowsNotEnough <=> llm = {}
                  /\ Cardinality(RequestedCities(wx_calls)) < 2 => llm = {}
            /\ \A i \in llm :
                  /\ Cardinality(wx_calls[i].cities) \in 2..4
                  /\ wx_calls[i].cities \subseteq RequestedCities(wx_calls)
                  /\ wx_calls[i].cities \subseteq {kept[j] : j \in 1..Len(kept)}

\* five cities were entered, the first four were fetched and compared
C26_Witness ==
    /\ wx_action.handler = "comparison"
    /\ Len(wx_action.typed) = 5
    /\ \E i \in 1..Len(wx_calls) :
          /\ wx_calls[i].kind = "llm"
          /\ wx_calls[i].cities = {"Atlanta", "Paris", "Tokyo", "Rome"}

(***************************************************************************)
(* Stored snapshot claims                                                  *)
(***************************************************************************)
\* lines 317-323: the keys the fetch handler stores
StoreKeys ==
    {"current_weather", "forecast_data", "location", "city_name",
     "unit_symbol", "wind_unit", "forecast_days"}

\* lines 286-287: the labels that go with a request's units
SymbolOf(request) ==
    IF request.params.temperature_unit = "celsius" THEN "U+00B0 C" ELSE "U+00B0 F"

WindLabelOf(request) ==
    IF request.params.wind_speed_unit = "kmh" THEN "km/h" ELSE "mph"

\* the stored values all belong to the two requests whose responses are
\* stored
OneSnapshot(store) ==
    LET cur == store["current_weather"].to
        fc  == store["forecast_data"].to
    IN  /\ cur.fn = "fetch_current_weather"
        /\ fc.fn = "fetch_forecast"
        /\ cur.params.latitude = fc.params.latitude
        /\ cur.params.longitude = fc.params.longitude
        /\ store["unit_symbol"] = SymbolOf(cur)
        /\ store["unit_symbol"] = SymbolOf(fc)
        /\ store["wind_unit"] = WindLabelOf(cur)
        /\ store["wind_unit"] = WindLabelOf(fc)
        /\ store["forecast_days"] = fc.params.forecast_days

\* C27: the store holds none or all of its seven values; whenever it
\* changes, the change is one successful fetch that stores the responses of
\* its own two requests together with the city, the place it was resolved
\* to, and the units and day count of the widgets at that click; and at every time the stored unit symbol, wind
\* unit and day count are those of the requests whose responses are stored,
\* whatever the widgets show since.
C27_StoreIsOneSnapshot ==
    [][ /\ DOMAIN session_state' \in {{}, StoreKeys}
        /\ DOMAIN session_state' # {} => OneSnapshot(session_state')
        /\ session_state' # session_state =>
              /\ wx_action'.handler = "fetch"
              /\ Succeeded'
              /\ Len(wx_requests') = 2
              /\ session_state'["current_weather"] = [to |-> wx_requests'[1]]
              /\ session_state'["forecast_data"] = [to |-> wx_requests'[2]]
              /\ session_state'["city_name"] = city_input
              /\ \E e \in DashGeoEnvs :
                    LET g == get_coordinates(city_input, e.secret, e.reply)
                    IN  /\ ~IsNone(g.ret)
                        /\ wx_calls' = GeocodeCalls(g)
                                        \o CallsOf("weather", wx_requests')
                        /\ session_state'["location"] = g.ret.name
                        /\ wx_requests'[1].params.latitude = g.ret.lat
                        /\ wx_requests'[1].params.longitude = g.ret.lon
              /\ session_state'["unit_symbol"] = unit_symbol
              /\ session_state'["wind_unit"] = wind_unit
              /\ session_state'["forecast_days"] = forecast_days ]_vars

\* data fetched in fahrenheit for one day is still stored, whole, after the
\* select box went back to Celsius, the slider to 7 and the city to another
C27_Witness ==
    /\ DOMAIN session_state = StoreKeys
    /\ session_state["unit_symbol"] = "U+00B0 F"
    /\ session_state["wind_unit"] = "mph"
    /\ session_state["forecast_days"] = SliderMin
    /\ temp_unit = "celsius"
    /\ forecast_days = SliderMax
    /\ session_state["city_name"] # city_input
    /\ wx_action.handler = "fetch"
    /\ ~Succeeded

(***************************************************************************)
(* Transcript alternation claims                                           *)
(***************************************************************************)
\* C28, as stated: every user turn of the transcript, whichever of the chat
\* input, the Fetch Weather quick action and the suggestion buttons put it
\* there, is followed by an assistant turn before the next user turn: no
\* user turn is directly followed by another user turn, and no script run
\* ends with a user turn left unanswered at the end of the transcript.
C28_Original ==
    /\ \A i \in 1..Len(chat_messages) - 1 :
          chat_messages[i].role = "user" => chat_messages[i + 1].role = "assistant"
    /\ chat_messages # <<>> =>
          chat_messages[Len(chat_messages)].role = "assistant"

(***************************************************************************)
(* Conditions chart claims                                                 *)
(***************************************************************************)
\* the icon get_weather_description pairs with a label
IconsOf(label) ==
    {weather_codes[c].icon : c \in {d \in DOMAIN weather_codes :
                                      weather_codes[d].label = label}}
    \cup (IF label = UnknownDescription.label
          THEN {UnknownDescription.icon} ELSE {})

RECURSIVE SumCounts(_, _)
SumCounts(table, k) ==
    IF k = 0 THEN 0 ELSE SumCounts(table, k - 1) + table[k].Count

\* C29, as stated: every row of the conditions chart pairs a label with the
\* icon get_weather_description assigns to that label and with the number
\* of hourly records bearing that label, no label has two rows, and the
\* counts add up to the number of records.
C29_Original ==
    fc_stats.kind = "stats" =>
        LET table  == fc_stats.weather_counts
            labels == Column(df_forecast.rows, "weather_desc")
        IN  /\ \A k \in 1..Len(table) :
                  /\ table[k].Emoji \in IconsOf(table[k].Condition)
                  /\ table[k].Count = CountOf(table[k].Condition, labels)
                  /\ table[k].Count > 0
            /\ \A j, k \in 1..Len(table) :
                  table[j].Condition = table[k].Condition => j = k
            /\ SumCounts(table, Len(table)) = Len(df_forecast.rows)

(***************************************************************************)
(* One mapping for the whole program                                       *)
(***************************************************************************)
DescribedEverywhere ==
    desc_result # Unset /\ desc_insights # Unset /\ desc_chatbot # Unset

\* C30, as stated: a weather code gets the same label on the dashboard, the
\* Insights page and the chatbot page, and a code one page recognises is
\* not "Unknown" on another.
C30_Original ==
    DescribedEverywhere =>
        /\ desc_insights.label = desc_result.label
        /\ desc_chatbot.label = desc_result.label

(***************************************************************************)
(* Specification SpecClassify: the adapters' replies to a failed LLM call  *)
(* whose str(e) is any text of ErrorTexts                                  *)
(***************************************************************************)
MaxWords == 2

ErrorWords ==
    << <<"q","u","o","t","a">>,
       <<"r","a","t","e">>,
       <<"s","a","f","e","t","y">>,
       <<"r","e","s","o","u","r","c","e","_","e","x","h","a","u","s","t","e","d">>,
       <<"4","2","9">>,
       <<"b","l","o","c","k","e","d">>,
       <<"i","n","v","a","l","i","d">>,
       <<"a","p","i","_","k","e","y">>,
       <<"f","a","i","l","e","d"," ","t","o"," ","g","e","n","e","r","a","t","e">>,
       <<"t","i","m","e","d"," ","o","u","t">> >>

\* the texts of n words, a space between two
RECURSIVE WordTexts(_)
WordTexts(n) ==
    IF n = 1 THEN {ErrorWords[i] : i \in 1..Len(ErrorWords)}
    ELSE {t \o <<" ">> \o ErrorWords[i] :
             t \in WordTexts(n - 1), i \in 1..Len(ErrorWords)}

ErrorTexts ==
    {ApplyCase(k, t) : k \in {"lower", "upper"},
                       t \in UNION {WordTexts(n) : n \in 1..MaxWords}}

ClassifyInit ==
    /\ txt_fn \in {"generate_ai_insights", "get_chatbot_response"}
    /\ txt_in \in ErrorTexts
    /\ txt_out = Unset

\* generate_ai_insights when model.generate_content raises e
FailInsights ==
    /\ txt_fn = "generate_ai_insights"
    /\ txt_out = Unset
    /\ txt_out' = generate_ai_insights([kind |-> "error", e |-> txt_in])
    /\ UNCHANGED <<txt_fn, txt_in, nonTextVars>>

\* get_chatbot_response when chat.send_message raises e
FailChatbot ==
    /\ txt_fn = "get_chatbot_response"
    /\ txt_out = Unset
    /\ txt_out' = get_chatbot_response([id |-> 1], [kind |-> "error", e |-> txt_in])
    /\ UNCHANGED <<txt_fn, txt_in, nonTextVars>>

ClassifyNext == FailInsights \/ FailChatbot

ClassifySpecInit ==
    ClassifyInit /\ GeoIdle /\ DescIdle /\ ShapeIdle /\ CtxIdle /\ DashIdle
    /\ ChatIdle /\ SessIdle

SpecClassify == ClassifySpecInit /\ [][ClassifyNext]_vars

(***************************************************************************)
(* Failure classification claims                                           *)
(***************************************************************************)
Classified == txt_out # Unset

\* the lower-cased error text holds the word
Has(word) == Contains(word, StrLower(txt_in))

RateLimitedTexts ==
    {"U+26A0 U+FE0F API rate limit reached. Please wait a moment and try again.",
     "U+26A0 U+FE0F Rate limit reached. Please wait and try again.",
     "U+26A0 U+FE0F Too many requests. Please slow down."}

ContentFilteredTexts ==
    {"U+26A0 U+FE0F Content filtered. Please rephrase your request.",
     "U+26A0 U+FE0F Content filtered. Please rephrase."}

IsRateLimited == txt_out.text \in RateLimitedTexts

IsContentFiltered == txt_out.text \in ContentFilteredTexts

IsConfiguration == txt_out = [text |-> "U+26A0 U+FE0F API configuration issue."]

\* the generic reply, carrying the original message
IsUnknown ==
    /\ "e" \in DOMAIN txt_out
    /\ txt_out.e = txt_in
    /\ ~IsRateLimited /\ ~IsContentFiltered /\ ~IsConfiguration

ClaimedClasses ==
    IF Has(<<"q","u","o","t","a">>) \/ Has(<<"r","a","t","e">>)
    THEN IsRateLimited
    ELSE IF Has(<<"s","a","f","e","t","y">>)
    THEN IsContentFiltered
    ELSE IsUnknown

\* C16, as stated: on both pages "quota" or "rate" gives RateLimited, else
\* "safety" gives ContentFiltered, else Unknown with the original message.
C16_Original == Classified => ClaimedClasses

\* C16, amended: on the Insights page the classes are as stated; on the
\* chatbot page "quota", "resource_exhausted", "rate" or "429" gives
\* RateLimited, else "safety" or "blocked" gives ContentFiltered, else
\* "invalid" or "api_key" gives the configuration message, which carries no
\* original text, else Unknown with the original message.
C16_ClassifiesByErrorText ==
    Classified =>
        /\ txt_fn = "generate_ai_insights" => ClaimedClasses
        /\ txt_fn = "get_chatbot_response" =>
              IF \/ Has(<<"q","u","o","t","a">>)
                 \/ Has(<<"r","e","s","o","u","r","c","e","_","e","x","h","a","u","s","t","e","d">>)
                 \/ Has(<<"r","a","t","e">>)
                 \/ Has(<<"4","2","9">>)
              THEN IsRateLimited
              ELSE IF Has(<<"s","a","f","e","t","y">>)
                      \/ Has(<<"b","l","o","c","k","e","d">>)
              THEN IsContentFiltered
              ELSE IF Has(<<"i","n","v","a","l","i","d">>)
                      \/ Has(<<"a","p","i","_","k","e","y">>)
              THEN IsConfiguration
              ELSE IsUnknown

\* "SAFETY QUOTA" on the Insights page: both words, RateLimited wins
C16_Witness ==
    /\ Classified
    /\ txt_fn = "generate_ai_insights"
    /\ txt_in = <<"S","A","F","E","T","Y"," ","Q","U","O","T","A">>
    /\ IsRateLimited

(***************************************************************************)
(* Specification SpecExtract: extract_city_from_message on one message.    *)
(* A message is a lead, a phrase in some letter case, a city text and an   *)
(* end.                                                                    *)
(***************************************************************************)
Leads ==
    { <<>>, <<"S","o",","," ">>,
      <<"W","h","a","t","'","s"," ","t","h","e"," ">>,
      <<"U+0130"," ","s","a","y",":"," ">> }

\* the lead-in phrases, and a phrase that is none of them
Phrases ==
    {patterns[k] : k \in 1..Len(patterns)}
    \cup { <<"w","h","a","t"," ","a","b","o","u","t"," ">> }

CityTexts ==
    { <<>>, <<"T","o","k","y","o">>, <<" ","N","e","w"," ","Y","o","r","k"," ">>, <<"S","t","."," ","L","o","u","i","s">>, <<"P","a","r","i","s",","," ","F","r","a","n","c","e">> }

Ends ==
    { <<>>, <<"?">>, <<".">>, <<" ","a","n","d"," ","t","h","e"," ","f","o","r","e","c","a","s","t"," ","f","o","r"," ","R","o","m","e","?">> }

Messages ==
    { x[1] \o ApplyCase(x[2], x[3]) \o x[4] \o x[5] :
        x \in Leads \X {"lower", "upper", "title"} \X Phrases \X CityTexts \X Ends }

ExtractInit ==
    /\ txt_fn = "extract_city_from_message"
    /\ txt_in \in Messages
    /\ txt_out = Unset

\* line 267: city = extract_city_from_message(prompt)
Extract ==
    /\ txt_fn = "extract_city_from_message"
    /\ txt_out = Unset
    /\ txt_out' = extract_city_from_message(txt_in)
    /\ UNCHANGED <<txt_fn, txt_in, nonTextVars>>

ExtractNext == Extract

ExtractSpecInit ==
    ExtractInit /\ GeoIdle /\ DescIdle /\ ShapeIdle /\ CtxIdle /\ DashIdle
    /\ ChatIdle /\ SessIdle

SpecExtract == ExtractSpecInit /\ [][ExtractNext]_vars

(***************************************************************************)
(* City extraction claims                                                  *)
(***************************************************************************)
Extracted == txt_out # Unset

Delimiters == {"?", ",", "."}

\* pattern k stands in the message at offset i, letter case ignored
MatchesAt(k, i) ==
    /\ i + Len(patterns[k]) <= Len(txt_in)
    /\ \A j \in 1..Len(patterns[k]) :
          LowerOf(txt_in[i + j]) = <<patterns[k][j]>>

\* the text that follows offset i up to the first delimiter, trimmed
TextAfter(i) ==
    LET tail == SliceFrom(txt_in, i)
        stops == {j \in 1..Len(tail) : tail[j] \in Delimiters}
        cut == IF stops = {} THEN Len(tail)
               ELSE (CHOOSE j \in stops : \A l \in stops : j <= l) - 1
    IN  Strip(SubSeq(tail, 1, cut))

\* C19: when a lead-in phrase stands in the message, letter case ignored,
\* the result is the text of the original message after that phrase up to
\* the first '?', ',' or '.', trimmed, in the original letter case (no city
\* when that text is empty); "What's the weather in Tokyo?" gives "Tokyo";
\* when no phrase stands in the message, there is no city.
C19_Original ==
    Extracted =>
        /\ IF \E k \in 1..Len(patterns), i \in 0..Len(txt_in) : MatchesAt(k, i)
           THEN \E k \in 1..Len(patterns), i \in 0..Len(txt_in) :
                   /\ MatchesAt(k, i)
                   /\ LET city == TextAfter(i + Len(patterns[k]))
                      IN  \/ txt_out = Str(city)
                          \/ city = <<>> /\ IsNone(txt_out)
           ELSE IsNone(txt_out)
        /\ txt_in = <<"W","h","a","t","'","s"," ","t","h","e"," ","w","e","a","t","h","e","r"," ","i","n"," ","T","o","k","y","o","?">>
              => txt_out = Str(<<"T","o","k","y","o">>)

\* "What's the weather in Tokyo?" gave "Tokyo"
C19_TokyoExtracted ==
    /\ Extracted
    /\ txt_in = <<"W","h","a","t","'","s"," ","t","h","e"," ","w","e","a","t","h","e","r"," ","i","n"," ","T","o","k","y","o","?">>
    /\ txt_out = Str(<<"T","o","k","y","o">>)

====
